---- MODULE Spec2Model ----
(***************************************************************************)
(* Model of the polly anonymization proxy: the POST /anonymize handler of  *)
(* src/routes/anonymize.js with its filtering stages (entity-type filter,  *)
(* threshold filter, term policy, denylist scan, merge), and the threshold *)
(* normalisation of src/services/anonymizationService.js.                  *)
(*                                                                         *)
(* JavaScript values are modelled as follows.                              *)
(*  - A string is a sequence of UTF-16 code units, each unit a one-element *)
(*    TLA+ string ("a", ",", ...); two units outside ASCII are named by    *)
(*    their code point (CapIDot, CombDot).                                 *)
(*  - A value that may be a number, a string or absent is a record         *)
(*    [k, n, s]: k is the kind ("number" for a finite number, "nonfinite"  *)
(*    for NaN and the infinities, "string", "undefined"), n the number,    *)
(*    s the string.  Offsets are integers.  Scores and thresholds are      *)
(*    fixed-point numbers in tenths: n = 5 is 0.5, n = 10 is 1.            *)
(*  - A Set is the duplicate-free sequence of its elements in insertion    *)
(*    order (the order a for..of loop visits them).                        *)
(*                                                                         *)
(* The annotator of src/utils/anonymizerUtils.js and the part of the       *)
(* Anonymizer component (src/components/Anonymizer/index.js) that shows    *)
(* the annotated markup are modelled too; ui is the state of the component.*)
(***************************************************************************)
EXTENDS Integers, Sequences, FiniteSets, TLC

VARIABLES req, args, result, ui

vars == <<req, args, result, ui>>

(***************************************************************************)
(* Bounds of the model.                                                    *)
(***************************************************************************)
MaxTextLen == 2

MaxEntities == 2

MaxMergeLen == 2

MaxSourceLen == 3

MaxStageLen == 2

MaxHtmlLen == 3

MaxAnnotEntities == 2

MaxUiHtmlLen == 2

MaxUiEntities == 2

(***************************************************************************)
(* Generic helpers.                                                        *)
(***************************************************************************)
Range(seq) == {seq[i] : i \in 1..Len(seq)}

SeqsUpTo(S, n) == UNION {[1..k -> S] : k \in 0..n}

Max(a, b) == IF a >= b THEN a ELSE b

Min(a, b) == IF a <= b THEN a ELSE b

\* Array.prototype.filter with the callback Keep.
Filter(seq, Keep(_)) == SelectSeq(seq, Keep)

(***************************************************************************)
(* JavaScript values.                                                      *)
(***************************************************************************)
Num(n) == [k |-> "number", n |-> n, s |-> <<>>]

NonFinite == [k |-> "nonfinite", n |-> 0, s |-> <<>>]

Str(s) == [k |-> "string", n |-> 0, s |-> s]

Undefined == [k |-> "undefined", n |-> 0, s |-> <<>>]

\* typeof v === "number": NaN and the infinities are numbers too.
IsNumberType(v) == v.k \in {"number", "nonfinite"}

\* Number.isFinite(v): no coercion, false for every non-number.
NumberIsFinite(v) == v.k = "number"

(***************************************************************************)
(* Strings.                                                                *)
(***************************************************************************)
CapIDot == "U+0130"

CombDot == "U+0307"

WhiteSpace == {" "}

Digits == <<"0", "1", "2", "3", "4", "5", "6", "7", "8", "9">>

\* String.prototype.toLowerCase on one code unit.  U+0130 (capital I with
\* dot above) is the one code unit whose lower case is two code units.
LowerUnit(c) ==
  CASE c = "A" -> <<"a">>
    [] c = "P" -> <<"p">>
    [] c = "Q" -> <<"q">>
    [] c = "I" -> <<"i">>
    [] c = CapIDot -> <<"i", CombDot>>
    [] OTHER -> <<c>>

UpperUnit(c) ==
  CASE c = "a" -> <<"A">>
    [] c = "p" -> <<"P">>
    [] c = "q" -> <<"Q">>
    [] OTHER -> <<c>>

RECURSIVE toLowerCase(_)
toLowerCase(s) ==
  IF s = <<>> THEN <<>> ELSE LowerUnit(Head(s)) \o toLowerCase(Tail(s))

RECURSIVE toUpperCase(_)
toUpperCase(s) ==
  IF s = <<>> THEN <<>> ELSE UpperUnit(Head(s)) \o toUpperCase(Tail(s))

RECURSIVE trimStart(_)
trimStart(s) ==
  IF s # <<>> /\ Head(s) \in WhiteSpace THEN trimStart(Tail(s)) ELSE s

RECURSIVE trimEnd(_)
trimEnd(s) ==
  IF s # <<>> /\ s[Len(s)] \in WhiteSpace
    THEN trimEnd(SubSeq(s, 1, Len(s) - 1))
    ELSE s

trim(s) == trimEnd(trimStart(s))

\* String.prototype.normalize("NFC"): the modelled code units hold no
\* sequence that composes or decomposes ("i" followed by U+0307 has no
\* precomposed form), so every modelled string is its own NFC form.
normalizeNFC(s) == s

\* String.prototype.slice(start, end) with integer arguments.
slice(s, start, end) ==
  LET len == Len(s)
      from == IF start < 0 THEN Max(len + start, 0) ELSE Min(start, len)
      to == IF end < 0 THEN Max(len + end, 0) ELSE Min(end, len)
  IN  IF from < to THEN SubSeq(s, from + 1, to) ELSE <<>>

\* Whether term occurs in s at the 0-based position i.
MatchesAt(s, term, i) ==
  /\ i >= 0
  /\ i + Len(term) <= Len(s)
  /\ SubSeq(s, i + 1, i + Len(term)) = term

\* String.prototype.indexOf(term, fromIndex): the first position at or after
\* fromIndex where term occurs, or -1.
indexOf(s, term, fromIndex) ==
  LET from == Min(Max(fromIndex, 0), Len(s))
      hits == {i \in from..Len(s) : MatchesAt(s, term, i)}
  IN  IF hits = {} THEN -1 ELSE CHOOSE i \in hits : \A j \in hits : i <= j

\* String.prototype.split(/[sep]+/): the pieces between maximal runs of
\* separator units; a leading or trailing run leaves an empty piece.
RECURSIVE splitFrom(_, _, _, _)
splitFrom(s, seps, i, piece) ==
  IF i > Len(s) THEN <<piece>>
  ELSE IF s[i] \in seps
    THEN IF i > 1 /\ s[i - 1] \in seps
           THEN splitFrom(s, seps, i + 1, piece)
           ELSE <<piece>> \o splitFrom(s, seps, i + 1, <<>>)
    ELSE splitFrom(s, seps, i + 1, Append(piece, s[i]))

split(s, seps) == splitFrom(s, seps, 1, <<>>)

\* Number.prototype.toString for an integer.
RECURSIVE NatToString(_)
NatToString(n) ==
  IF n < 10 THEN <<Digits[n + 1]>>
  ELSE NatToString(n \div 10) \o <<Digits[(n % 10) + 1]>>

NumberToString(n) == IF n < 0 THEN <<"-">> \o NatToString(-n) ELSE NatToString(n)

DigitValue(c) == CHOOSE d \in 0..9 : Digits[d + 1] = c

IsDigit(c) == \E d \in 1..10 : Digits[d] = c

\* The length of the longest prefix of s made of digits.
RECURSIVE DigitRun(_)
DigitRun(s) ==
  IF s # <<>> /\ IsDigit(Head(s)) THEN 1 + DigitRun(Tail(s)) ELSE 0

RECURSIVE DigitsValue(_)
DigitsValue(s) ==
  IF s = <<>> THEN 0
  ELSE 10 * DigitsValue(SubSeq(s, 1, Len(s) - 1)) + DigitValue(s[Len(s)])

\* Number.parseFloat(string): leading white space, an optional sign, digits,
\* an optional fraction; NaN when no digit is found.  The result is in
\* tenths; the modelled inputs carry at most one fraction digit and neither
\* an exponent nor the word Infinity.
parseFloat(s) ==
  LET t == trimStart(s)
      neg == t # <<>> /\ Head(t) = "-"
      u == IF t # <<>> /\ Head(t) \in {"-", "+"} THEN Tail(t) ELSE t
      ni == DigitRun(u)
      afterInt == SubSeq(u, ni + 1, Len(u))
      hasDot == afterInt # <<>> /\ Head(afterInt) = "."
      frac == IF hasDot THEN Tail(afterInt) ELSE <<>>
      nf == DigitRun(frac)
      tenths == 10 * DigitsValue(SubSeq(u, 1, ni))
                + (IF nf > 0 THEN DigitValue(frac[1]) ELSE 0)
  IN  IF ni = 0 /\ nf = 0 THEN NonFinite
      ELSE Num(IF neg THEN -tenths ELSE tenths)

(***************************************************************************)
(* src/routes/anonymize.js: constants and the helpers of the route.        *)
(***************************************************************************)
\* 0.5, in tenths.
DEFAULT_ACCEPTANCE_THRESHOLD == 5

TERM_SPLIT_REGEX == {"\n", ","}

ENTITY_TYPE_SPLIT_REGEX == {" ", "\n", ","}

DENYLIST_TERM == <<"D", "E", "N", "Y", "L", "I", "S", "T", "_", "T", "E", "R", "M">>

denylist == <<"d", "e", "n", "y", "l", "i", "s", "t">>

\* An entity of the analyzer's answer that is no object (null, a number...).
NotAnObject ==
  [obj |-> FALSE, entity_type |-> Undefined, start |-> Undefined,
   end |-> Undefined, score |-> Undefined, recognizer_result |-> Undefined,
   text |-> Undefined]

\* An object with the four fields the route reads.
Entity(type, start, end, score) ==
  [obj |-> TRUE, entity_type |-> type, start |-> start, end |-> end,
   score |-> score, recognizer_result |-> Undefined, text |-> Undefined]

\* new Set(array): the first occurrence of each element, in order.
RECURSIVE NewSet(_)
NewSet(array) ==
  IF array = <<>> THEN <<>>
  ELSE LET init == NewSet(SubSeq(array, 1, Len(array) - 1))
           last == array[Len(array)]
       IN  IF last \in Range(init) THEN init ELSE Append(init, last)

SetHas(set, x) == x \in Range(set)

Map(array, f(_)) == [i \in 1..Len(array) |-> f(array[i])]

RECURSIVE Concat(_)
Concat(arrays) ==
  IF arrays = <<>> THEN <<>> ELSE Head(arrays) \o Concat(Tail(arrays))

\* array.flatMap(f) for f returning an array.
FlatMap(array, f(_)) == Concat(Map(array, f))

\* filter(Boolean) on an array of strings: the empty string is falsy.
NonEmpty(str) == str # <<>>

\* Applied to strings only: to the pieces of a split and to a slice.
normalizeListTerm(value) == toLowerCase(trim(normalizeNFC(value)))

\* A request field that may hold a list: [k, s, a] with k "undefined",
\* "string" (the string s) or "array" (the array a of values).
ListUndefined == [k |-> "undefined", s |-> <<>>, a |-> <<>>]

ListString(s) == [k |-> "string", s |-> s, a |-> <<>>]

ListArray(a) == [k |-> "array", s |-> <<>>, a |-> a]

SplitTermEntry(entry) ==
  IF entry.k = "string" THEN split(entry.s, TERM_SPLIT_REGEX) ELSE <<>>

parseListInput(input) ==
  CASE input.k = "array" ->
         Filter(Map(FlatMap(input.a, SplitTermEntry), normalizeListTerm), NonEmpty)
    [] input.k = "string" /\ input.s # <<>> ->
         Filter(Map(split(input.s, TERM_SPLIT_REGEX), normalizeListTerm), NonEmpty)
    [] OTHER -> <<>>

buildTermSet(input) == NewSet(parseListInput(input))

TrimUpper(part) == toUpperCase(trim(part))

SplitTypeEntry(value) ==
  IF value.k = "string"
    THEN Filter(Map(split(value.s, ENTITY_TYPE_SPLIT_REGEX), TrimUpper), NonEmpty)
    ELSE <<>>

parseRequestedEntityTypes(input) ==
  LET values == IF input.k = "array" THEN input.a
                ELSE <<[k |-> input.k, n |-> 0, s |-> input.s]>>
  IN  NewSet(Filter(FlatMap(values, SplitTypeEntry), NonEmpty))

\* shouldIncludeEntity with the allow list looked up before the deny list.
shouldIncludeEntityAllowFirst(entity, sourceText, allowlistSet, denylistSet) ==
  IF ~entity.obj THEN FALSE
  ELSE IF \/ ~NumberIsFinite(entity.start)
          \/ ~NumberIsFinite(entity.end)
          \/ entity.start.n >= entity.end.n
    THEN FALSE
  ELSE LET candidate == slice(sourceText, entity.start.n, entity.end.n)
           normalizedCandidate == normalizeListTerm(candidate)
       IN  IF Len(normalizedCandidate) = 0 THEN FALSE
           ELSE IF SetHas(allowlistSet, normalizedCandidate) THEN FALSE
           ELSE TRUE

\* shouldIncludeEntity with the sets looked up for the candidate as sliced,
\* not normalized.
shouldIncludeEntityRawCandidate(entity, sourceText, allowlistSet, denylistSet) ==
  IF ~entity.obj THEN FALSE
  ELSE IF \/ ~NumberIsFinite(entity.start)
          \/ ~NumberIsFinite(entity.end)
          \/ entity.start.n >= entity.end.n
    THEN FALSE
  ELSE LET candidate == slice(sourceText, entity.start.n, entity.end.n)
           normalizedCandidate == normalizeListTerm(candidate)
       IN  IF Len(normalizedCandidate) = 0 THEN FALSE
           ELSE IF SetHas(denylistSet, candidate) THEN TRUE
           ELSE IF SetHas(allowlistSet, candidate) THEN FALSE
           ELSE TRUE

shouldIncludeEntity(entity, sourceText, allowlistSet, denylistSet) ==
  IF ~entity.obj THEN FALSE
  ELSE IF \/ ~NumberIsFinite(entity.start)
          \/ ~NumberIsFinite(entity.end)
          \/ entity.start.n >= entity.end.n
    THEN FALSE
  ELSE LET candidate == slice(sourceText, entity.start.n, entity.end.n)
           normalizedCandidate == normalizeListTerm(candidate)
       IN  IF Len(normalizedCandidate) = 0 THEN FALSE
           ELSE IF SetHas(denylistSet, normalizedCandidate) THEN TRUE
           ELSE IF SetHas(allowlistSet, normalizedCandidate) THEN FALSE
           ELSE TRUE

\* scanTerm with the cursor advanced by one unit after a match, not to the
\* end of the match.
RECURSIVE scanTermAdvanceByOne(_, _, _, _)
scanTermAdvanceByOne(sourceText, lowerSource, term, searchIndex) ==
  IF searchIndex > Len(lowerSource) THEN <<>>
  ELSE LET matchIndex == indexOf(lowerSource, term, searchIndex)
           start == matchIndex
           end == start + Len(term)
       IN  IF matchIndex = -1 THEN <<>>
           ELSE <<[obj |-> TRUE, entity_type |-> Str(DENYLIST_TERM),
                   start |-> Num(start), end |-> Num(end), score |-> Num(10),
                   recognizer_result |-> Str(denylist),
                   text |-> Str(slice(sourceText, start, end))]>>
                \o scanTermAdvanceByOne(sourceText, lowerSource, term, start + 1)

\* The while loop of findDenylistEntities for one term.
RECURSIVE scanTerm(_, _, _, _)
scanTerm(sourceText, lowerSource, term, searchIndex) ==
  IF searchIndex > Len(lowerSource) THEN <<>>
  ELSE LET matchIndex == indexOf(lowerSource, term, searchIndex)
           start == matchIndex
           end == start + Len(term)
       IN  IF matchIndex = -1 THEN <<>>
           ELSE <<[obj |-> TRUE, entity_type |-> Str(DENYLIST_TERM),
                   start |-> Num(start), end |-> Num(end), score |-> Num(10),
                   recognizer_result |-> Str(denylist),
                   text |-> Str(slice(sourceText, start, end))]>>
                \o scanTerm(sourceText, lowerSource, term, end)

ScanIfTerm(sourceText, lowerSource, term) ==
  IF term = <<>> THEN <<>> ELSE scanTerm(sourceText, lowerSource, term, 0)

RECURSIVE scanTerms(_, _, _)
scanTerms(sourceText, lowerSource, terms) ==
  IF terms = <<>> THEN <<>>
  ELSE ScanIfTerm(sourceText, lowerSource, Head(terms))
       \o scanTerms(sourceText, lowerSource, Tail(terms))

\* sourceText is a string at the one call site (the route answered 400
\* otherwise).
findDenylistEntities(sourceText, denylistSet) ==
  IF Len(denylistSet) = 0 THEN <<>>
  ELSE scanTerms(sourceText, toLowerCase(sourceText), denylistSet)

\* entity.entity_type ?? "" inside a template literal.
TypeString(type) ==
  CASE type.k = "string" -> type.s
    [] type.k = "number" -> NumberToString(type.n)
    [] type.k = "nonfinite" -> <<"N", "a", "N">>
    [] OTHER -> <<>>

\* Whether pushIfUnique gets as far as the key.
IsMergeable(entity) ==
  /\ entity.obj
  /\ NumberIsFinite(entity.start)
  /\ NumberIsFinite(entity.end)
  /\ entity.start.n < entity.end.n

\* `${start}-${end}-${type}`
DedupKey(entity) ==
  NumberToString(entity.start.n) \o <<"-">> \o NumberToString(entity.end.n)
    \o <<"-">> \o TypeString(entity.entity_type)

\* pushIfUnique with the later entity of a key replacing the earlier one.
pushIfUniqueLastWins(acc, entity) ==
  IF ~IsMergeable(entity) THEN acc
  ELSE IF DedupKey(entity) \in acc.seen
    THEN [seen |-> acc.seen,
          output |-> [i \in 1..Len(acc.output) |->
                        IF DedupKey(acc.output[i]) = DedupKey(entity)
                          THEN entity
                          ELSE acc.output[i]]]
  ELSE [seen |-> acc.seen \cup {DedupKey(entity)},
        output |-> Append(acc.output, entity)]

\* pushIfUnique without the look-up of the key.
pushIfUniqueNoSeen(acc, entity) ==
  IF ~IsMergeable(entity) THEN acc
  ELSE [seen |-> acc.seen \cup {DedupKey(entity)},
        output |-> Append(acc.output, entity)]

\* pushIfUnique: acc is [seen, output].
pushIfUnique(acc, entity) ==
  IF ~IsMergeable(entity) THEN acc
  ELSE IF DedupKey(entity) \in acc.seen THEN acc
  ELSE [seen |-> acc.seen \cup {DedupKey(entity)},
        output |-> Append(acc.output, entity)]

RECURSIVE pushAll(_, _)
pushAll(acc, entities) ==
  IF entities = <<>> THEN acc
  ELSE pushAll(pushIfUnique(acc, Head(entities)), Tail(entities))

\* mergeEntities with the two loops in the other order.
mergeEntitiesSupplementalFirst(baseEntities, supplementalEntities) ==
  pushAll(pushAll([seen |-> {}, output |-> <<>>], supplementalEntities),
          baseEntities).output

mergeEntities(baseEntities, supplementalEntities) ==
  pushAll(pushAll([seen |-> {}, output |-> <<>>], baseEntities),
          supplementalEntities).output

(***************************************************************************)
(* src/routes/anonymize.js: the stages of POST /anonymize.                 *)
(***************************************************************************)
\* Lines 387-397: the threshold of the request, in tenths.
acceptanceThresholdOf(rawThreshold) ==
  LET parsedThreshold ==
        IF IsNumberType(rawThreshold) THEN rawThreshold
        ELSE IF rawThreshold.k = "string" THEN parseFloat(rawThreshold.s)
        ELSE NonFinite
  IN  IF /\ NumberIsFinite(parsedThreshold)
         /\ parsedThreshold.n >= 0
         /\ parsedThreshold.n <= 10
        THEN parsedThreshold.n
        ELSE DEFAULT_ACCEPTANCE_THRESHOLD

\* The check of the text without the test of its type.
IsInvalidTextNoTypeCheck(text) == text.k = "string" /\ Len(trim(text.s)) = 0

\* Line 402: the text the route refuses.
IsInvalidText(text) == text.k # "string" \/ Len(trim(text.s)) = 0

\* entityTypePasses with the type of the entity compared as it is, not
\* trimmed and uppercased.
entityTypePassesRawType(entity, entityTypeFilterSet) ==
  IF ~entity.obj THEN FALSE
  ELSE IF entityTypeFilterSet = <<>> THEN TRUE
  ELSE LET type == IF entity.entity_type.k = "string"
                     THEN entity.entity_type.s
                     ELSE <<>>
       IN  SetHas(entityTypeFilterSet, type)

\* The callback of analyzerResults.filter, lines 447-458; an empty
\* entityTypeFilterSet stands for null.
entityTypePasses(entity, entityTypeFilterSet) ==
  IF ~entity.obj THEN FALSE
  ELSE IF entityTypeFilterSet = <<>> THEN TRUE
  ELSE LET type == IF entity.entity_type.k = "string"
                     THEN toUpperCase(trim(entity.entity_type.s))
                     ELSE <<>>
       IN  SetHas(entityTypeFilterSet, type)

\* analyzerResults is [isArray, items].
entityTypeFiltered(analyzerResults, entityTypeFilterSet) ==
  IF analyzerResults.isArray
    THEN LET Keep(entity) == entityTypePasses(entity, entityTypeFilterSet)
         IN  Filter(analyzerResults.items, Keep)
    ELSE <<>>

\* thresholdPasses with a strict comparison.
thresholdPassesStrict(entity, acceptanceThreshold) ==
  IF ~entity.obj THEN FALSE
  ELSE LET score == IF IsNumberType(entity.score) THEN entity.score
                    ELSE IF entity.score.k = "string"
                      THEN parseFloat(entity.score.s)
                    ELSE NonFinite
       IN  IF NumberIsFinite(score) THEN score.n > acceptanceThreshold ELSE TRUE

\* thresholdPasses with a score that is no finite number compared as 0.
thresholdPassesMissingAsZero(entity, acceptanceThreshold) ==
  IF ~entity.obj THEN FALSE
  ELSE LET score == IF IsNumberType(entity.score) THEN entity.score
                    ELSE IF entity.score.k = "string"
                      THEN parseFloat(entity.score.s)
                    ELSE NonFinite
       IN  IF NumberIsFinite(score) THEN score.n >= acceptanceThreshold
           ELSE 0 >= acceptanceThreshold

\* The callback of entityTypeFiltered.filter, lines 461-471.
thresholdPasses(entity, acceptanceThreshold) ==
  IF ~entity.obj THEN FALSE
  ELSE LET score == IF IsNumberType(entity.score) THEN entity.score
                    ELSE IF entity.score.k = "string"
                      THEN parseFloat(entity.score.s)
                    ELSE NonFinite
       IN  IF NumberIsFinite(score) THEN score.n >= acceptanceThreshold ELSE TRUE

thresholdFiltered(entities, acceptanceThreshold) ==
  LET Keep(entity) == thresholdPasses(entity, acceptanceThreshold)
  IN  Filter(entities, Keep)

allowDenyFiltered(entities, text, allowlistSet, denylistSet) ==
  LET Keep(entity) == shouldIncludeEntity(entity, text, allowlistSet, denylistSet)
  IN  Filter(entities, Keep)

\* filteredAnalyzerResults without the term policy and without the merge:
\* what passes the threshold, then the entities of the scan.
filteredAnalyzerResultsUnvalidated(analyzerResults, text, entityTypeFilterSet, acceptanceThreshold, allowlistSet, denylistSet) ==
  thresholdFiltered(entityTypeFiltered(analyzerResults, entityTypeFilterSet),
                    acceptanceThreshold)
    \o findDenylistEntities(text, denylistSet)

\* Lines 445-481: the list sent to the anonymizer.
filteredAnalyzerResults(analyzerResults, text, entityTypeFilterSet, acceptanceThreshold, allowlistSet, denylistSet) ==
  mergeEntities(
    allowDenyFiltered(
      thresholdFiltered(entityTypeFiltered(analyzerResults, entityTypeFilterSet),
                        acceptanceThreshold),
      text, allowlistSet, denylistSet),
    findDenylistEntities(text, denylistSet))

(***************************************************************************)
(* src/services/anonymizationService.js                                    *)
(***************************************************************************)
DEFAULT_THRESHOLD == 5

\* Lines 75-90.  toFixed(4) rounds to four decimals, which changes no
\* number given in tenths.
normalizeThreshold(value) ==
  LET numericValue ==
        IF IsNumberType(value) THEN value
        ELSE IF value.k = "string" THEN parseFloat(value.s)
        ELSE NonFinite
  IN  IF ~NumberIsFinite(numericValue) THEN DEFAULT_THRESHOLD
      ELSE IF numericValue.n < 0 THEN 0
      ELSE IF numericValue.n > 10 THEN 10
      ELSE numericValue.n

(***************************************************************************)
(* src/utils/anonymizerUtils.js                                            *)
(***************************************************************************)
\* The units of the class /[-\/\\^$*+?.()|[\]{}]/ that the modelled strings
\* hold.
RegExpSpecials == {"."}

\* foundText.replace(/[-\/\\^$*+?.()|[\]{}]/g, "\\$&"): a backslash before
\* every special unit.
RECURSIVE escapeRegExp(_)
escapeRegExp(str) ==
  IF str = <<>> THEN <<>>
  ELSE (IF Head(str) \in RegExpSpecials THEN <<"\\", Head(str)>> ELSE <<Head(str)>>)
       \o escapeRegExp(Tail(str))

\* new RegExp(source, "g"): the sequence of the atoms of the pattern.  An
\* escaped unit and an ordinary unit match themselves, a dot that is not
\* escaped matches any unit (the modelled strings hold no line terminator).
RECURSIVE RegExp(_)
RegExp(source) ==
  IF source = <<>> THEN <<>>
  ELSE IF Head(source) = "\\" /\ Len(source) >= 2
    THEN <<[any |-> FALSE, unit |-> source[2]]>> \o RegExp(Tail(Tail(source)))
  ELSE IF Head(source) = "."
    THEN <<[any |-> TRUE, unit |-> "."]>> \o RegExp(Tail(source))
  ELSE <<[any |-> FALSE, unit |-> Head(source)]>> \o RegExp(Tail(source))

\* Whether the regular expression matches str at its first unit.
RegExpMatchesHead(regex, str) ==
  /\ Len(regex) <= Len(str)
  /\ \A i \in 1..Len(regex) : regex[i].any \/ regex[i].unit = str[i]

\* String.prototype.replace(regex, replacement) for a global regular
\* expression of one or more atoms: the matches are taken from left to
\* right, each search starting after the match before.  No modelled
\* replacement holds a "$", the one unit with a meaning in a replacement.
RECURSIVE replace(_, _, _)
replace(str, regex, replacement) ==
  IF str = <<>> THEN <<>>
  ELSE IF RegExpMatchesHead(regex, str)
    THEN replacement \o replace(SubSeq(str, Len(regex) + 1, Len(str)), regex, replacement)
  ELSE <<Head(str)>> \o replace(Tail(str), regex, replacement)

\* An entity as the annotator reads it.
AnnotEntity(type, start, end, foundText) ==
  [obj |-> TRUE, entity_type |-> type, start |-> start, end |-> end,
   foundText |-> foundText]

\* An element of the entity list that is null.
NullEntity ==
  [obj |-> FALSE, entity_type |-> Undefined, start |-> Undefined,
   end |-> Undefined, foundText |-> Undefined]

\* A display map is [isMap, keys, values]: the Map whose i-th key has the
\* i-th value, or no map at all.
NoDisplayMap == [isMap |-> FALSE, keys |-> <<>>, values |-> <<>>]

DisplayMap(keys, values) == [isMap |-> TRUE, keys |-> keys, values |-> values]

\* displayMap.get(entityType) ?? entityType
MapGetOr(displayMap, entityType) ==
  IF \E i \in 1..Len(displayMap.keys) : displayMap.keys[i] = entityType
    THEN Str(displayMap.values[CHOOSE i \in 1..Len(displayMap.keys) :
                                 displayMap.keys[i] = entityType])
    ELSE Str(entityType)

\* Lines 6-24.  The display map of the component is a Map or absent.
resolveDisplayEntityType(entityType, displayMap) ==
  IF entityType.k # "string" \/ Len(entityType.s) = 0 THEN entityType
  ELSE IF ~displayMap.isMap THEN entityType
  ELSE MapGetOr(displayMap, entityType.s)

\* Lines 41-48: the entity after the forEach over the list.
\* typeof NaN is "number" too, and every comparison with NaN is false.
withFoundText(entity, plainText) ==
  IF /\ entity.obj
     /\ entity.start.k = "number"
     /\ entity.end.k = "number"
     /\ entity.end.n > entity.start.n
    THEN [entity EXCEPT !.foundText = Str(slice(plainText, entity.start.n, entity.end.n))]
    ELSE entity

\* Lines 39-50: the entities as the call leaves them.
foundTextsSet(plainText, entities) ==
  IF plainText.k = "string"
    THEN [i \in 1..Len(entities) |-> withFoundText(entities[i], plainText.s)]
    ELSE entities

\* Lines 53-54.
foundTextLength(entity) ==
  IF entity.obj /\ entity.foundText.k = "string" THEN Len(entity.foundText.s) ELSE 0

\* Where a stable sort by descending length puts the entity in a list that
\* is sorted already: after the last element that is not shorter.
RECURSIVE insertSorted(_, _)
insertSorted(sorted, entity) ==
  IF sorted = <<>> THEN <<entity>>
  ELSE IF foundTextLength(Head(sorted)) >= foundTextLength(entity)
    THEN <<Head(sorted)>> \o insertSorted(Tail(sorted), entity)
  ELSE <<entity>> \o sorted

\* Lines 52-56: [...entities].sort((a, b) => bLength - aLength); the sort
\* of an array is stable.
RECURSIVE sortedEntities(_)
sortedEntities(entities) ==
  IF entities = <<>> THEN <<>>
  ELSE insertSorted(sortedEntities(SubSeq(entities, 1, Len(entities) - 1)),
                    entities[Len(entities)])

REDACTED == <<"R", "E", "D", "A", "C", "T", "E", "D">>

\* Lines 64-71.
replacementOf(entity, entityTypeDisplayMap) ==
  LET displayEntityType == resolveDisplayEntityType(entity.entity_type, entityTypeDisplayMap)
  IN  IF displayEntityType.k = "string" /\ Len(displayEntityType.s) > 0
        THEN <<"&", "l", "t", ";">> \o displayEntityType.s \o <<"&", "g", "t", ";">>
        ELSE <<"&", "l", "t", ";">> \o REDACTED \o <<"&", "g", "t", ";">>

\* annotatePass that replaces the first occurrence only.
annotatePassFirstOnly(sanitizedHtml, entity, entityTypeDisplayMap) ==
  IF entity.obj /\ entity.foundText.k = "string" /\ Len(entity.foundText.s) > 0
    THEN LET at == indexOf(sanitizedHtml, entity.foundText.s, 0)
         IN  IF at = -1 THEN sanitizedHtml
             ELSE SubSeq(sanitizedHtml, 1, at)
                  \o replacementOf(entity, entityTypeDisplayMap)
                  \o SubSeq(sanitizedHtml, at + Len(entity.foundText.s) + 1,
                            Len(sanitizedHtml))
    ELSE sanitizedHtml

\* Lines 58-79: the body of sortedEntities.forEach for one entity.
annotatePass(sanitizedHtml, entity, entityTypeDisplayMap) ==
  IF entity.obj /\ entity.foundText.k = "string" /\ Len(entity.foundText.s) > 0
    THEN replace(sanitizedHtml, RegExp(escapeRegExp(entity.foundText.s)),
                 replacementOf(entity, entityTypeDisplayMap))
    ELSE sanitizedHtml

RECURSIVE annotatePasses(_, _, _)
annotatePasses(sanitizedHtml, entities, entityTypeDisplayMap) ==
  IF entities = <<>> THEN sanitizedHtml
  ELSE annotatePasses(annotatePass(sanitizedHtml, Head(entities), entityTypeDisplayMap),
                      Tail(entities), entityTypeDisplayMap)

\* Lines 26-82: the markup returned.  html and plainText are values,
\* entities is an array.
applyAnonymizationToHtml(html, plainText, entities, entityTypeDisplayMap) ==
  LET sanitizedHtml == IF html.k = "string" THEN html.s ELSE <<>>
  IN  IF Len(entities) = 0 THEN sanitizedHtml
      ELSE annotatePasses(sanitizedHtml,
                          sortedEntities(foundTextsSet(plainText, entities)),
                          entityTypeDisplayMap)

(***************************************************************************)
(* src/components/Anonymizer/index.js: the signature of a result.          *)
(* A value of a payload is [t, n, s, a]: t is its type ("null",            *)
(* "undefined", "number", "nonfinite", "boolean", "string", "array",       *)
(* "object"), n a number counted in units of 10^-8 (for a boolean, 1 is    *)
(* true), s a string, a the elements of an array or the entries            *)
(* [key, value] of an object in the order of its keys.                     *)
(***************************************************************************)
JNull == [t |-> "null", n |-> 0, s |-> <<>>, a |-> <<>>]

JUndefined == [t |-> "undefined", n |-> 0, s |-> <<>>, a |-> <<>>]

JNumber(n) == [t |-> "number", n |-> n, s |-> <<>>, a |-> <<>>]

JNonFinite == [t |-> "nonfinite", n |-> 0, s |-> <<>>, a |-> <<>>]

JString(s) == [t |-> "string", n |-> 0, s |-> s, a |-> <<>>]

JArray(a) == [t |-> "array", n |-> 0, s |-> <<>>, a |-> a]

JObject(entries) == [t |-> "object", n |-> 0, s |-> <<>>, a |-> entries]

JEntry(key, value) == [key |-> key, value |-> value]

\* The code units of the modelled keys and strings in the order of their
\* UTF-16 codes.
CodeUnits ==
  <<" ", "\"", ",", ".", "A", "H", "M", "P", "Q", "T", "\\", "_", "a", "c", "d", "e", "g",
    "h", "i", "l", "m", "n", "o", "p", "q", "r", "s", "t", "u", "w", "x", "y">>

UnitCode(c) == CHOOSE i \in 1..Len(CodeUnits) : CodeUnits[i] = c

\* a < b for strings, as Array.prototype.sort without a comparator orders
\* them: by code units, a proper prefix first.
RECURSIVE StringLess(_, _)
StringLess(a, b) ==
  IF b = <<>> THEN FALSE
  ELSE IF a = <<>> THEN TRUE
  ELSE IF Head(a) = Head(b) THEN StringLess(Tail(a), Tail(b))
  ELSE UnitCode(Head(a)) < UnitCode(Head(b))

RECURSIVE insertString(_, _)
insertString(sorted, str) ==
  IF sorted = <<>> THEN <<str>>
  ELSE IF StringLess(str, Head(sorted)) THEN <<str>> \o sorted
  ELSE <<Head(sorted)>> \o insertString(Tail(sorted), str)

\* array.sort() for an array of strings.
RECURSIVE sortStrings(_)
sortStrings(array) ==
  IF array = <<>> THEN <<>>
  ELSE insertString(sortStrings(Tail(array)), Head(array))

\* value.toFixed(6) read back as a number: the number of millionths nearest
\* to n hundred-millionths, a tie rounded away from zero.
toFixed6(n) == IF n < 0 THEN -((50 - n) \div 100) ELSE (n + 50) \div 100

\* JSON.stringify of a number given in millionths.
RECURSIVE fractionString(_, _)
fractionString(fraction, places) ==
  IF places = 0 THEN <<>>
  ELSE LET rest == fractionString(fraction \div 10, places - 1)
           digit == fraction % 10
       IN  rest \o <<Digits[digit + 1]>>

RECURSIVE stripZeros(_)
stripZeros(str) ==
  IF str # <<>> /\ str[Len(str)] = "0" THEN stripZeros(SubSeq(str, 1, Len(str) - 1))
  ELSE str

numberToJSON(millionths) ==
  LET m == IF millionths < 0 THEN -millionths ELSE millionths
      fraction == stripZeros(fractionString(m % 1000000, 6))
  IN  (IF millionths < 0 THEN <<"-">> ELSE <<>>)
      \o NatToString(m \div 1000000)
      \o (IF fraction = <<>> THEN <<>> ELSE <<".">> \o fraction)

\* The characters of a string as JSON.stringify writes them between the
\* quotes: a quote and a backslash get a backslash before them.
RECURSIVE escapeJSON(_)
escapeJSON(str) ==
  IF str = <<>> THEN <<>>
  ELSE (IF Head(str) \in {"\"", "\\"} THEN <<"\\", Head(str)>> ELSE <<Head(str)>>)
       \o escapeJSON(Tail(str))

\* JSON.stringify(string)
stringToJSON(str) == <<"\"">> \o escapeJSON(str) \o <<"\"">>

\* parts.join(",")
RECURSIVE join(_)
join(parts) ==
  IF parts = <<>> THEN <<>>
  ELSE IF Len(parts) = 1 THEN parts[1]
  ELSE parts[1] \o <<",">> \o join(Tail(parts))

\* The entry of the object with the key.
entryOf(entries, key) == entries[CHOOSE i \in 1..Len(entries) : entries[i].key = key]

\* Object.keys(value).sort()
sortedKeys(entries) == sortStrings([i \in 1..Len(entries) |-> entries[i].key])

null == <<"n", "u", "l", "l">>

\* stableStringify without the sort of the keys.
RECURSIVE stableStringifyUnsorted(_)
stableStringifyUnsorted(value) ==
  CASE value.t = "number" -> numberToJSON(toFixed6(value.n))
    [] value.t = "boolean" ->
         IF value.n = 1 THEN <<"t", "r", "u", "e">> ELSE <<"f", "a", "l", "s", "e">>
    [] value.t = "string" -> stringToJSON(value.s)
    [] value.t = "array" ->
         <<"[">> \o join([i \in 1..Len(value.a) |-> stableStringifyUnsorted(value.a[i])])
                 \o <<"]">>
    [] value.t = "object" ->
         <<"{">> \o join([i \in 1..Len(value.a) |->
                           stringToJSON(value.a[i].key) \o <<":">>
                             \o stableStringifyUnsorted(value.a[i].value)])
                 \o <<"}">>
    [] OTHER -> null

\* stableStringify with the strings written without quotes and escapes.
RECURSIVE stableStringifyBare(_)
stableStringifyBare(value) ==
  CASE value.t = "number" -> numberToJSON(toFixed6(value.n))
    [] value.t = "boolean" ->
         IF value.n = 1 THEN <<"t", "r", "u", "e">> ELSE <<"f", "a", "l", "s", "e">>
    [] value.t = "string" -> value.s
    [] value.t = "array" ->
         <<"[">> \o join([i \in 1..Len(value.a) |-> stableStringifyBare(value.a[i])])
                 \o <<"]">>
    [] value.t = "object" ->
         LET keys == sortedKeys(value.a)
         IN  <<"{">> \o join([i \in 1..Len(keys) |->
                               keys[i] \o <<":">>
                                 \o stableStringifyBare(entryOf(value.a, keys[i]).value)])
                     \o <<"}">>
    [] OTHER -> null

\* Lines 42-77.
RECURSIVE stableStringify(_)
stableStringify(value) ==
  CASE value.t = "number" -> numberToJSON(toFixed6(value.n))
    [] value.t = "boolean" ->
         IF value.n = 1 THEN <<"t", "r", "u", "e">> ELSE <<"f", "a", "l", "s", "e">>
    [] value.t = "string" -> stringToJSON(value.s)
    [] value.t = "array" ->
         <<"[">> \o join([i \in 1..Len(value.a) |-> stableStringify(value.a[i])])
                 \o <<"]">>
    [] value.t = "object" ->
         LET keys == sortedKeys(value.a)
         IN  <<"{">> \o join([i \in 1..Len(keys) |->
                               stringToJSON(keys[i]) \o <<":">>
                                 \o stableStringify(entryOf(value.a, keys[i]).value)])
                     \o <<"}">>
    [] OTHER -> null

\* 0.5 in units of 10^-8: DEFAULT_ACCEPTANCE_THRESHOLD of the component.
COMPONENT_DEFAULT_ACCEPTANCE_THRESHOLD == 50000000

\* A number of parseFloat, which is in tenths, in units of 10^-8.
parsedNumber(str) ==
  LET parsed == parseFloat(str)
  IN  IF parsed.k = "number" THEN JNumber(parsed.n * 10000000) ELSE JNonFinite

\* value.trim().toUpperCase() for a string, "" otherwise (lines 107-109).
typeCode(value) == IF value.t = "string" THEN toUpperCase(trim(value.s)) ELSE <<>>

\* Lines 104-115.
normalizedEntityTypes(entityTypes) ==
  IF entityTypes.t = "array"
    THEN LET codes == [i \in 1..Len(entityTypes.a) |-> typeCode(entityTypes.a[i])]
             strings == sortStrings(NewSet(SelectSeq(codes, NonEmpty)))
         IN  JArray([i \in 1..Len(strings) |-> JString(strings[i])])
    ELSE JArray(<<>>)

\* field = default in the destructuring of the payload.
orDefault(value, default) == IF value.t = "undefined" THEN default ELSE value

\* Lines 97-102 and 124-126.
signatureThreshold(threshold) ==
  LET normalizedThreshold ==
        CASE threshold.t \in {"number", "nonfinite"} -> threshold
          [] threshold.t = "string" -> parsedNumber(threshold.s)
          [] OTHER -> JNumber(COMPONENT_DEFAULT_ACCEPTANCE_THRESHOLD)
  IN  IF normalizedThreshold.t = "number"
        THEN JNumber(toFixed6(normalizedThreshold.n) * 100)
        ELSE JNumber(COMPONENT_DEFAULT_ACCEPTANCE_THRESHOLD)

\* payload[key] for an object: undefined when the key is absent.
field(payload, key) ==
  IF \E i \in 1..Len(payload.a) : payload.a[i].key = key
    THEN entryOf(payload.a, key).value
    ELSE JUndefined

\* Lines 79-136.
buildResultSignature(payload) ==
  IF payload.t # "object" THEN <<>>
  ELSE
  LET entities == orDefault(field(payload, <<"e", "n", "t", "i", "t", "i", "e", "s">>), JArray(<<>>))
      items == orDefault(field(payload, <<"i", "t", "e", "m", "s">>), JArray(<<>>))
      signaturePayload ==
        JObject(<<
          JEntry(<<"s", "o", "u", "r", "c", "e", "T", "e", "x", "t">>, orDefault(field(payload, <<"s", "o", "u", "r", "c", "e", "T", "e", "x", "t">>), JString(<<>>))),
          JEntry(<<"s", "o", "u", "r", "c", "e", "H", "t", "m", "l">>, orDefault(field(payload, <<"s", "o", "u", "r", "c", "e", "H", "t", "m", "l">>), JString(<<>>))),
          JEntry(<<"r", "e", "s", "u", "l", "t", "T", "e", "x", "t">>, orDefault(field(payload, <<"r", "e", "s", "u", "l", "t", "T", "e", "x", "t">>), JString(<<>>))),
          JEntry(<<"r", "e", "s", "u", "l", "t", "H", "t", "m", "l">>, orDefault(field(payload, <<"r", "e", "s", "u", "l", "t", "H", "t", "m", "l">>), JString(<<>>))),
          JEntry(<<"n", "e", "r", "M", "o", "d", "e", "l">>, orDefault(field(payload, <<"n", "e", "r", "M", "o", "d", "e", "l">>), JString(<<>>))),
          JEntry(<<"l", "a", "n", "g", "u", "a", "g", "e">>, orDefault(field(payload, <<"l", "a", "n", "g", "u", "a", "g", "e">>), JString(<<>>))),
          JEntry(<<"t", "h", "r", "e", "s", "h", "o", "l", "d">>,
                 signatureThreshold(
                   orDefault(field(payload, <<"t", "h", "r", "e", "s", "h", "o", "l", "d">>),
                             JNumber(COMPONENT_DEFAULT_ACCEPTANCE_THRESHOLD)))),
          JEntry(<<"a", "l", "l", "o", "w", "l", "i", "s", "t">>, orDefault(field(payload, <<"a", "l", "l", "o", "w", "l", "i", "s", "t">>), JString(<<>>))),
          JEntry(<<"d", "e", "n", "y", "l", "i", "s", "t">>, orDefault(field(payload, <<"d", "e", "n", "y", "l", "i", "s", "t">>), JString(<<>>))),
          JEntry(<<"e", "n", "t", "i", "t", "y", "T", "y", "p", "e", "s">>,
                 normalizedEntityTypes(
                   orDefault(field(payload, <<"e", "n", "t", "i", "t", "y", "T", "y", "p", "e", "s">>), JArray(<<>>)))),
          JEntry(<<"e", "n", "t", "i", "t", "i", "e", "s">>, IF entities.t = "array" THEN entities ELSE JArray(<<>>)),
          JEntry(<<"i", "t", "e", "m", "s">>, IF items.t = "array" THEN items ELSE JArray(<<>>))>>)
  IN  stableStringify(signaturePayload)

(***************************************************************************)
(* src/components/Anonymizer/index.js: the findings and their toggles.     *)
(* ui holds the state of the component: the markup and the text submitted, *)
(* results.entities, the toggles (a function from the ids toggled to       *)
(* booleans), the markup displayed, the resultHtml of the payload kept at  *)
(* the submission, and whether the effect that re-renders is still to run. *)
(***************************************************************************)
IdleUi ==
  [submitted |-> FALSE,
   lastSubmittedHtml |-> <<>>,
   lastSubmittedText |-> <<>>,
   entities |-> <<>>,
   entityTypeDisplayValueMap |-> NoDisplayMap,
   entityToggles |-> <<>>,
   displayHtml |-> <<>>,
   resultHtml |-> <<>>,
   effectPending |-> FALSE]

\* { ...entity }: the copy of an object; the copy of null is an object
\* without properties.
spread(entity) ==
  IF entity.obj THEN entity ELSE AnnotEntity(Undefined, Undefined, Undefined, Undefined)

\* Lines 138-142; fallbackIndex counts from 0.
buildEntityId(entity, fallbackIndex) ==
  LET start == CASE entity.start.k = "number" -> NumberToString(entity.start.n)
                 [] entity.start.k = "nonfinite" -> <<"N", "a", "N">>
                 [] OTHER -> NumberToString(fallbackIndex)
  IN  TypeString(entity.entity_type) \o <<"-">> \o start \o <<"-">>
        \o NumberToString(fallbackIndex)

\* Object.fromEntries of the pairs [id, true], lines 879-884.
initialToggles(entities) ==
  [id \in {buildEntityId(entities[i], i - 1) : i \in 1..Len(entities)} |-> TRUE]

\* entityToggles[id] !== false
toggledOn(entityToggles, id) ==
  id \notin DOMAIN entityToggles \/ entityToggles[id] # FALSE

\* Lines 1219-1225: the copies of the entities whose toggle is not false.
RECURSIVE activeEntitiesFrom(_, _, _)
activeEntitiesFrom(entities, entityToggles, index) ==
  IF index > Len(entities) THEN <<>>
  ELSE (IF toggledOn(entityToggles, buildEntityId(entities[index], index - 1))
          THEN <<spread(entities[index])>>
          ELSE <<>>)
       \o activeEntitiesFrom(entities, entityToggles, index + 1)

activeEntities(u) == activeEntitiesFrom(u.entities, u.entityToggles, 1)

\* effectHtml that annotates the markup displayed, not the markup
\* submitted.
effectHtmlFromDisplay(u) ==
  IF Len(u.lastSubmittedHtml) = 0 THEN <<>>
  ELSE applyAnonymizationToHtml(Str(u.displayHtml), Str(u.lastSubmittedText),
                                activeEntities(u), u.entityTypeDisplayValueMap)

\* Lines 1208-1233: the markup the effect displays; results.entities is an
\* array once a submission was answered.
effectHtml(u) ==
  IF Len(u.lastSubmittedHtml) = 0 THEN <<>>
  ELSE applyAnonymizationToHtml(Str(u.lastSubmittedHtml), Str(u.lastSubmittedText),
                                activeEntities(u), u.entityTypeDisplayValueMap)

\* Lines 872-926: the state after the response to a submission; data is
\* the response, submission the markup and the text sent.
AfterSubmit(u, submission, data, displayMap) ==
  LET rawEntities == [i \in 1..Len(data.entities) |-> spread(data.entities[i])]
      anonymizedHtml ==
        applyAnonymizationToHtml(Str(submission.html), Str(submission.text),
                                 [i \in 1..Len(rawEntities) |-> spread(rawEntities[i])],
                                 displayMap)
  IN  [submitted |-> TRUE,
       lastSubmittedHtml |-> submission.html,
       lastSubmittedText |-> submission.text,
       entities |-> rawEntities,
       entityTypeDisplayValueMap |-> displayMap,
       entityToggles |-> initialToggles(rawEntities),
       displayHtml |-> anonymizedHtml,
       resultHtml |-> anonymizedHtml,
       effectPending |-> TRUE]

\* Lines 1501-1506.
AfterFindingToggle(u, id, isChecked) ==
  [u EXCEPT
     !.entityToggles = [x \in (DOMAIN u.entityToggles) \cup {id} |->
                          IF x = id THEN isChecked ELSE u.entityToggles[x]],
     !.effectPending = TRUE]

(***************************************************************************)
(* src/components/Anonymizer/index.js: the result kept for saving.  The    *)
(* settings do not change in a session and are left out of the payload; so *)
(* are resultText and items, which the annotation does not read.  session  *)
(* is the rest of the state of the component: the payload, the two         *)
(* signatures, the flags that disable the buttons; inflight holds the      *)
(* handlers that wait for a response, each with the values it closed over. *)
(***************************************************************************)
NoPayload ==
  [set |-> FALSE, sourceText |-> <<>>, sourceHtml |-> <<>>, resultHtml |-> <<>>,
   entities |-> <<>>]

\* A property of an entity as a value of the signature; offsets are whole
\* numbers.
valueToJ(v) ==
  CASE v.k = "number" -> JNumber(v.n * 100000000)
    [] v.k = "string" -> JString(v.s)
    [] v.k = "nonfinite" -> JNonFinite
    [] OTHER -> JUndefined

entityToJ(entity) ==
  LET entries == <<JEntry(<<"e", "n", "t", "i", "t", "y", "_", "t", "y", "p", "e">>, valueToJ(entity.entity_type)),
                   JEntry(<<"s", "t", "a", "r", "t">>, valueToJ(entity.start)),
                   JEntry(<<"e", "n", "d">>, valueToJ(entity.end))>>
      Defined(entry) == entry.value.t # "undefined"
  IN  JObject(SelectSeq(entries, Defined))

\* The payload as buildResultSignature gets it; null before any result.
payloadToJ(payload) ==
  IF ~payload.set THEN JNull
  ELSE JObject(<<JEntry(<<"s", "o", "u", "r", "c", "e", "T", "e", "x", "t">>, JString(payload.sourceText)),
                 JEntry(<<"s", "o", "u", "r", "c", "e", "H", "t", "m", "l">>, JString(payload.sourceHtml)),
                 JEntry(<<"r", "e", "s", "u", "l", "t", "H", "t", "m", "l">>, JString(payload.resultHtml)),
                 JEntry(<<"e", "n", "t", "i", "t", "i", "e", "s">>,
                        JArray([i \in 1..Len(payload.entities) |->
                                  entityToJ(payload.entities[i])]))>>)

signatureOf(payload) == buildResultSignature(payloadToJ(payload))

\* Lines 897-910: the payload of a submission that was answered.
submitPayload(u) ==
  [set |-> TRUE, sourceText |-> u.lastSubmittedText, sourceHtml |-> u.lastSubmittedHtml,
   resultHtml |-> u.resultHtml, entities |-> u.entities]

\* Lines 968-1013: the payload of a record that was loaded.  The record is
\* the payload that was posted: its strings as they are, its entities after
\* JSON.stringify and JSON.parse, which keep their strings and finite
\* numbers and leave out what is undefined.
loadPayload(record) ==
  [set |-> TRUE, sourceText |-> record.sourceText, sourceHtml |-> record.sourceHtml,
   resultHtml |-> record.resultHtml,
   entities |-> [i \in 1..Len(record.entities) |-> spread(record.entities[i])]]

\* Lines 1053-1078: the state shown after a load.
AfterLoad(u, payload) ==
  [submitted |-> TRUE,
   lastSubmittedHtml |-> payload.sourceHtml,
   lastSubmittedText |-> payload.sourceText,
   entities |-> payload.entities,
   entityTypeDisplayValueMap |-> u.entityTypeDisplayValueMap,
   entityToggles |-> initialToggles(payload.entities),
   displayHtml |-> payload.resultHtml,
   resultHtml |-> payload.resultHtml,
   effectPending |-> TRUE]

\* Lines 1178-1206: the state shown after a reset.
AfterReset(u) ==
  [IdleUi EXCEPT !.entityTypeDisplayValueMap = u.entityTypeDisplayValueMap]

\* Lines 1162-1176.
canSaveCurrentResult(session) ==
  /\ session.payload.set
  /\ session.currentResultSignature # <<>>
  /\ session.currentResultSignature # session.lastSavedSignature
  /\ ~session.isSavingAnonymization

\* Lines 1117-1124: the handler goes on to post.
savePosts(session) ==
  /\ session.payload.set
  /\ signatureOf(session.payload) # <<>>
  /\ signatureOf(session.payload) # session.lastSavedSignature

(***************************************************************************)
(* src/polly.js, src/auth/middleware.js, src/routes/anonymize.js: the way  *)
(* of a request to a handler of the /api router.  A request is             *)
(* [mount, route, isAuthenticated, userId]: its originalUrl is mount       *)
(* followed by route, isAuthenticated is "absent" when the request has no  *)
(* such function, userId is 0 when it has no user.  result is what was     *)
(* done for the request, in order.  Express matches the path of a mount    *)
(* and of a route ignoring case (its default, which src/polly.js does not  *)
(* change), and on a whole segment.                                        *)
(***************************************************************************)
API_MOUNT == <<"/", "a", "p", "i">>

\* The routes of the router and the operation the handler of each performs.
ApiRoutes ==
  {"GET /presets", "POST /presets", "DELETE /presets/:presetId", "GET /anonymize/saved",
   "GET /anonymize/saved/:id", "POST /anonymize/saved", "POST /anonymize"}

operationOf(route) ==
  CASE route = "GET /presets" -> "listPresetsForUser"
    [] route = "POST /presets" -> "savePresetForUser"
    [] route = "DELETE /presets/:presetId" -> "deletePresetForUser"
    [] route = "GET /anonymize/saved" -> "searchAnonymizationsForUser"
    [] route = "GET /anonymize/saved/:id" -> "getAnonymizationForUser"
    [] route = "POST /anonymize/saved" -> "saveAnonymizationForUser"
    [] OTHER -> "fetch analyzer"

\* originalUrl.startsWith(prefix); the route of a request starts with "/".
startsWith(request, prefix) ==
  /\ Len(request.mount) >= Len(prefix)
  /\ SubSeq(request.mount, 1, Len(prefix)) = prefix

\* app.use("/api", router): the path is under the mount, ignoring case.
mountMatches(request) == toLowerCase(request.mount) = API_MOUNT

\* src/auth/middleware.js lines 1-12: what the middleware does.
ensureAuthenticated(request) ==
  IF request.isAuthenticated = "true" THEN "next"
  ELSE IF startsWith(request, API_MOUNT) THEN "401"
  ELSE "redirect /login"

\* src/routes/anonymize.js: the handler of the route.  All but the handler
\* of POST /anonymize answer 401 to a request without a user id.
routeHandler(request) ==
  IF request.route # "POST /anonymize" /\ request.userId = 0 THEN "401"
  ELSE operationOf(request.route)

(***************************************************************************)
(* The state of the requests.  req[r] holds the locals of the handler of   *)
(* request r that live across its await points, the calls it made and the  *)
(* response it sent; analyzerResponse is "ok" or "notOk" once the fetch of *)
(* the analyzer has resolved, by analyzerResponse.ok; analyzerParsed tells *)
(* that analyzerResponse.json() has resolved.                              *)
(***************************************************************************)
ReqIds == {1}

NoResults == [isArray |-> FALSE, items |-> <<>>]

IdleReq ==
  [pc |-> "idle",
   text |-> Undefined,
   rawThreshold |-> Undefined,
   entityTypeFilterSet |-> <<>>,
   acceptanceThreshold |-> 0,
   allowlistSet |-> <<>>,
   denylistSet |-> <<>>,
   analyzerCalls |-> 0,
   analyzerResponse |-> "none",
   analyzerParsed |-> FALSE,
   analyzerResults |-> NoResults,
   anonymizerCalls |-> 0,
   filteredAnalyzerResults |-> <<>>,
   status |-> 0,
   responses |-> 0]

\* res.status(code).json(...): one more response, the handler returns.
Respond(r, code) == [r EXCEPT !.pc = "done", !.status = code,
                               !.responses = r.responses + 1]

\* Lines 366-433: the settings are read, the text is checked, the analyzer
\* is called.  r is the state of the request, body its JSON body.
AfterReceive(r, body) ==
  LET parsed == [r EXCEPT
                   !.text = body.text,
                   !.rawThreshold = body.threshold,
                   !.entityTypeFilterSet =
                       parseRequestedEntityTypes(body.entityTypes),
                   !.acceptanceThreshold = acceptanceThresholdOf(body.threshold),
                   !.allowlistSet = buildTermSet(body.allowlist),
                   !.denylistSet = buildTermSet(body.denylist)]
  IN  IF IsInvalidText(body.text)
        THEN Respond(parsed, 400)
        ELSE [parsed EXCEPT !.pc = "awaitAnalyzer", !.analyzerCalls = @ + 1]

\* analyzerResponse.ok as the handler sees it (line 435): the fetch resolved
\* unless it rejected.
analyzerResponseOf(kind) ==
  CASE kind \in {"notOk", "notOkNoBody"} -> "notOk"
    [] kind \in {"ok", "badJson"} -> "ok"
    [] OTHER -> "none"

\* The handler that goes on to the anonymizer after it has answered 502.
AfterAnalyzerNoReturn(r, kind, analyzerResults) ==
  LET seen == [r EXCEPT !.analyzerResponse = analyzerResponseOf(kind)]
  IN  CASE kind = "notOk" ->
             [Respond(seen, 502) EXCEPT !.pc = "awaitAnonymizer", !.anonymizerCalls = @ + 1]
        [] kind = "ok" ->
             [seen EXCEPT
                !.pc = "awaitAnonymizer",
                !.analyzerParsed = TRUE,
                !.analyzerResults = analyzerResults,
                !.filteredAnalyzerResults =
                    filteredAnalyzerResults(
                      analyzerResults, r.text.s, r.entityTypeFilterSet,
                      r.acceptanceThreshold, r.allowlistSet, r.denylistSet),
                !.anonymizerCalls = @ + 1]
        [] OTHER -> Respond(seen, 500)

\* Lines 424-495.  The analyzer's answer is one of: the fetch rejects
\* ("reject"), a status that is not OK ("notOk", or "notOkNoBody" when
\* reading its body rejects), an OK status whose body is no JSON
\* ("badJson"), an OK status with a JSON value ("ok").
AfterAnalyzer(r, kind, analyzerResults) ==
  LET seen == [r EXCEPT !.analyzerResponse = analyzerResponseOf(kind)]
  IN  CASE kind = "notOk" -> Respond(seen, 502)
        [] kind = "ok" ->
             [seen EXCEPT
                !.pc = "awaitAnonymizer",
                !.analyzerParsed = TRUE,
                !.analyzerResults = analyzerResults,
                !.filteredAnalyzerResults =
                    filteredAnalyzerResults(
                      analyzerResults, r.text.s, r.entityTypeFilterSet,
                      r.acceptanceThreshold, r.allowlistSet, r.denylistSet),
                !.anonymizerCalls = @ + 1]
        [] OTHER -> Respond(seen, 500)

\* Lines 497-520.  "okNull" is an OK status whose JSON body is null: reading
\* anonymizerResult.text throws, and the catch answers 500.
AfterAnonymizer(r, kind) ==
  CASE kind = "notOk" -> Respond(r, 502)
    [] kind = "ok" -> Respond(r, 200)
    [] OTHER -> Respond(r, 500)

(***************************************************************************)
(* The inputs of the requests.                                             *)
(***************************************************************************)
TextUnits == {"a", "A", " ", CapIDot}

TextInputs == {Undefined} \cup {Str(t) : t \in SeqsUpTo(TextUnits, MaxTextLen)}

ThresholdInputs ==
  {Undefined, Num(-5), Num(10), Num(15), Str(<<"0", ".", "3">>)}

AllowlistInputs == {ListUndefined, ListString(<<" ", "A", ",">>)}

DenylistInputs ==
  {ListUndefined, ListArray(<<Str(<<"A", "\n", "a", "a">>), Num(0)>>)}

EntityTypeInputs == {ListUndefined, ListString(<<"p", ",", " ", "P">>)}

Bodies ==
  [text : TextInputs, threshold : ThresholdInputs, allowlist : AllowlistInputs,
   denylist : DenylistInputs, entityTypes : EntityTypeInputs]

\* The entities an analyzer answer is made of.
AnalyzerEntities ==
  {Entity(Str(<<"p">>), Num(0), Num(1), Num(3)),
   Entity(Str(<<"p">>), Num(0), Num(1), Undefined),
   Entity(Str(<<"q">>), Num(1), Num(2), Num(7)),
   Entity(Str(DENYLIST_TERM), Num(0), Num(1), Num(10)),
   Entity(Str(<<"p">>), Num(1), Num(1), Num(10)),
   Entity(Str(<<"p">>), Undefined, Num(1), Num(10)),
   Entity(Str(<<"p">>), Num(0), NonFinite, Num(10)),
   Entity(Str(<<"q">>), Num(-1), Num(5), Num(10)),
   NotAnObject}

AnalyzerAnswers ==
  {NoResults}
    \cup {[isArray |-> TRUE, items |-> items] :
            items \in SeqsUpTo(AnalyzerEntities, MaxEntities)}

AnalyzerFailures == {"reject", "notOk", "notOkNoBody", "badJson"}

AnonymizerReplyKinds == {"reject", "notOk", "notOkNoBody", "badJson", "okNull", "ok"}

(***************************************************************************)
(* The specification of the route.                                         *)
(***************************************************************************)
NoCall == [fn |-> "none"]

Init ==
  /\ req = [id \in ReqIds |-> IdleReq]
  /\ args = NoCall
  /\ result = <<>>
  /\ ui = IdleUi

\* A request arrives with one of the bodies.
Receive(id, bodies) ==
  /\ req[id].pc = "idle"
  /\ \E body \in bodies : req' = [req EXCEPT ![id] = AfterReceive(req[id], body)]
  /\ UNCHANGED <<args, result, ui>>

\* The call of the analyzer fails.
AnalyzerFails(id) ==
  /\ req[id].pc = "awaitAnalyzer"
  /\ \E kind \in AnalyzerFailures :
       req' = [req EXCEPT ![id] = AfterAnalyzer(req[id], kind, NoResults)]
  /\ UNCHANGED <<args, result, ui>>

\* The analyzer answers, and the answer is filtered with the settings that
\* another request in flight has read, as if they were kept outside the
\* handler.
AnalyzerRepliesSharedSettings(id, answers) ==
  /\ req[id].pc = "awaitAnalyzer"
  /\ \E answer \in answers :
       LET other == CHOOSE o \in DOMAIN req : o # id \/ DOMAIN req = {id}
           holder == IF req[other].pc = "idle" THEN req[id] ELSE req[other]
           shared == [req[id] EXCEPT
                        !.text = holder.text,
                        !.entityTypeFilterSet = holder.entityTypeFilterSet,
                        !.acceptanceThreshold = holder.acceptanceThreshold,
                        !.allowlistSet = holder.allowlistSet,
                        !.denylistSet = holder.denylistSet]
       IN  req' = [req EXCEPT ![id] = AfterAnalyzer(shared, "ok", answer)]
  /\ UNCHANGED <<args, result, ui>>

\* The analyzer answers OK with one of the answers.
AnalyzerReplies(id, answers) ==
  /\ req[id].pc = "awaitAnalyzer"
  /\ \E answer \in answers :
       req' = [req EXCEPT ![id] = AfterAnalyzer(req[id], "ok", answer)]
  /\ UNCHANGED <<args, result, ui>>

AnonymizerReplies(id) ==
  /\ req[id].pc = "awaitAnonymizer"
  /\ \E kind \in AnonymizerReplyKinds :
       req' = [req EXCEPT ![id] = AfterAnonymizer(req[id], kind)]
  /\ UNCHANGED <<args, result, ui>>

Next ==
  \/ \E id \in ReqIds : Receive(id, Bodies)
  \/ \E id \in ReqIds : AnalyzerFails(id)
  \/ \E id \in ReqIds : AnalyzerReplies(id, AnalyzerAnswers)
  \/ \E id \in ReqIds : AnonymizerReplies(id)

Spec == Init /\ [][Next]_vars

(***************************************************************************)
(* Several requests in flight.  Each handler runs from one await point to  *)
(* the next without interruption, so the steps of the requests interleave  *)
(* at the actions above.  args holds the body each request arrives with    *)
(* and the answer the analyzer gives to it.                                *)
(***************************************************************************)
MaxRequests == 2

ConcurrentIds == 1..MaxRequests

ConcurrentBodies ==
  {body \in Bodies :
     /\ body.text \in {Str(<<"a">>), Str(<<"a", "A">>)}
     /\ body.threshold \in {Undefined, Num(10)}
     /\ body.threshold = Undefined <=> body.entityTypes = ListUndefined
     /\ body.allowlist = ListUndefined \/ body.denylist = ListUndefined}

ConcurrentAnswers ==
  {[isArray |-> TRUE,
    items |-> <<Entity(Str(<<"p">>), Num(0), Num(1), Num(3)),
                Entity(Str(<<"q">>), Num(1), Num(2), Num(7))>>],
   [isArray |-> TRUE,
    items |-> <<Entity(Str(<<"p">>), Num(0), Num(1), Num(10))>>]}

InitConcurrent ==
  /\ req = [id \in ConcurrentIds |-> IdleReq]
  /\ args \in [fn : {"requests"},
               bodies : [ConcurrentIds -> ConcurrentBodies],
               answers : [ConcurrentIds -> ConcurrentAnswers]]
  /\ result = <<>>
  /\ ui = IdleUi

NextConcurrent ==
  \/ \E id \in ConcurrentIds : Receive(id, {args.bodies[id]})
  \/ \E id \in ConcurrentIds : AnalyzerFails(id)
  \/ \E id \in ConcurrentIds : AnalyzerReplies(id, {args.answers[id]})
  \/ \E id \in ConcurrentIds : AnonymizerReplies(id)

SpecConcurrent == InitConcurrent /\ [][NextConcurrent]_vars

(***************************************************************************)
(* Specifications of the stages taken alone: args holds the arguments of   *)
(* one call, drawn from bounded sets, and result the values returned so    *)
(* far.  The requests stay idle.                                           *)
(***************************************************************************)
IdleRequests == req = [id \in ReqIds |-> IdleReq]

\* mergeEntities(baseEntities, supplementalEntities), and the merge of its
\* output with supplementalEntities once more.
MergeInputs ==
  {Entity(Str(<<"p">>), Num(0), Num(1), Num(9)),
   Entity(Str(<<"p">>), Num(0), Num(1), Num(4)),
   Entity(Undefined, Num(0), Num(1), Num(9)),
   Entity(Str(<<"p">>), Num(1), Num(2), Num(9)),
   Entity(Str(<<"p">>), Num(1), Num(1), Num(9)),
   Entity(Str(<<"p">>), Undefined, Num(1), Num(9)),
   NotAnObject}

InitMerge ==
  /\ IdleRequests
  /\ ui = IdleUi
  /\ args \in [fn : {"mergeEntities"},
               baseEntities : SeqsUpTo(MergeInputs, MaxMergeLen),
               supplementalEntities : SeqsUpTo(MergeInputs, MaxMergeLen)]
  /\ result = <<>>

CallMergeEntities ==
  /\ args.fn = "mergeEntities"
  /\ result = <<>>
  /\ result' = <<mergeEntities(args.baseEntities, args.supplementalEntities)>>
  /\ UNCHANGED <<req, args, ui>>

CallMergeAgain ==
  /\ args.fn = "mergeEntities"
  /\ Len(result) = 1
  /\ result' = Append(result, mergeEntities(result[1], args.supplementalEntities))
  /\ UNCHANGED <<req, args, ui>>

NextMerge == CallMergeEntities \/ CallMergeAgain

SpecMerge == InitMerge /\ [][NextMerge]_vars

\* thresholdFiltered = entityTypeFiltered.filter(...) for a threshold the
\* route can compute.
ScoreInputs ==
  {Num(n) : n \in -1..11}
    \cup {NonFinite, Undefined, Str(<<>>), Str(<<"x">>), Str(<<"-">>),
          Str(<<"0", ".", "3">>), Str(<<" ", "1">>)}

ThresholdNumbers == {Num(n) : n \in -1..11}

InitThreshold ==
  /\ IdleRequests
  /\ ui = IdleUi
  /\ args \in [fn : {"thresholdFiltered"},
               entities : SeqsUpTo({Entity(Str(<<"p">>), Num(0), Num(1), score) :
                                      score \in ScoreInputs} \cup {NotAnObject},
                                   MaxStageLen),
               acceptanceThreshold :
                 {acceptanceThresholdOf(t) : t \in ThresholdNumbers}]
  /\ result = <<>>

CallThresholdFiltered ==
  /\ args.fn = "thresholdFiltered"
  /\ result = <<>>
  /\ result' = <<thresholdFiltered(args.entities, args.acceptanceThreshold)>>
  /\ UNCHANGED <<req, args, ui>>

NextThreshold == CallThresholdFiltered

SpecThreshold == InitThreshold /\ [][NextThreshold]_vars

\* shouldIncludeEntity(entity, sourceText, allowlistSet, denylistSet) for
\* the term sets buildTermSet builds.
PolicyTermInputs ==
  {ListUndefined, ListString(<<"A", ",", " ">>),
   ListString(<<"a", " ", "a", "\n", "a">>),
   ListArray(<<Str(<<CapIDot>>), Num(0), Str(<<"a", "A">>)>>)}

PolicyOffsets == {Num(n) : n \in -1..(MaxSourceLen + 1)} \cup {Undefined, NonFinite}

PolicyEntities ==
  {Entity(Str(<<"p">>), start, end, Num(9)) :
     start \in PolicyOffsets, end \in PolicyOffsets} \cup {NotAnObject}

InitPolicy ==
  /\ IdleRequests
  /\ ui = IdleUi
  /\ args \in [fn : {"shouldIncludeEntity"},
               entity : PolicyEntities,
               sourceText : SeqsUpTo(TextUnits, MaxSourceLen),
               allowlistSet : {buildTermSet(input) : input \in PolicyTermInputs},
               denylistSet : {buildTermSet(input) : input \in PolicyTermInputs}]
  /\ result = <<>>

CallShouldIncludeEntity ==
  /\ args.fn = "shouldIncludeEntity"
  /\ result = <<>>
  /\ result' = <<shouldIncludeEntity(args.entity, args.sourceText,
                                     args.allowlistSet, args.denylistSet)>>
  /\ UNCHANGED <<req, args, ui>>

NextPolicy == CallShouldIncludeEntity

SpecPolicy == InitPolicy /\ [][NextPolicy]_vars

\* entityTypeFiltered for the sets parseRequestedEntityTypes builds; the
\* empty set stands for the null the route replaces it with.
TypeInputs ==
  {Undefined, Num(0), Str(<<>>), Str(<<"p">>), Str(<<"P">>), Str(<<" ", "p">>),
   Str(<<"q">>)}

RequestedTypeInputs ==
  {ListUndefined, ListString(<<>>), ListString(<<" ", ",">>),
   ListString(<<"p", ",", " ", "P">>),
   ListArray(<<Str(<<"q", " ", "p">>), Num(0)>>)}

TypeFilterAnswers ==
  {NoResults}
    \cup {[isArray |-> TRUE, items |-> items] :
            items \in SeqsUpTo({Entity(type, Num(0), Num(1), Num(9)) :
                                  type \in TypeInputs} \cup {NotAnObject},
                               MaxStageLen)}

InitTypeFilter ==
  /\ IdleRequests
  /\ ui = IdleUi
  /\ args \in [fn : {"entityTypeFiltered"},
               analyzerResults : TypeFilterAnswers,
               entityTypeFilterSet :
                 {parseRequestedEntityTypes(input) : input \in RequestedTypeInputs}]
  /\ result = <<>>

CallEntityTypeFiltered ==
  /\ args.fn = "entityTypeFiltered"
  /\ result = <<>>
  /\ result' = <<entityTypeFiltered(args.analyzerResults, args.entityTypeFilterSet)>>
  /\ UNCHANGED <<req, args, ui>>

NextTypeFilter == CallEntityTypeFiltered

SpecTypeFilter == InitTypeFilter /\ [][NextTypeFilter]_vars

\* findDenylistEntities(sourceText, denylistSet) for the sets buildTermSet
\* builds.
ScanTermInputs ==
  {ListUndefined, ListString(<<"A">>), ListString(<<"a", "a", ",", "a">>),
   ListArray(<<Str(<<CapIDot>>), Str(<<"a", " ", "a">>)>>)}

InitScan ==
  /\ IdleRequests
  /\ ui = IdleUi
  /\ args \in [fn : {"findDenylistEntities"},
               sourceText : SeqsUpTo(TextUnits, MaxSourceLen),
               denylistSet : {buildTermSet(input) : input \in ScanTermInputs}]
  /\ result = <<>>

CallFindDenylistEntities ==
  /\ args.fn = "findDenylistEntities"
  /\ result = <<>>
  /\ result' = <<findDenylistEntities(args.sourceText, args.denylistSet)>>
  /\ UNCHANGED <<req, args, ui>>

NextScan == CallFindDenylistEntities

SpecScan == InitScan /\ [][NextScan]_vars

\* applyAnonymizationToHtml(html, plainText, items, entities, options),
\* and the call for the same entities in the reverse order.  The call sets
\* the foundText of the entities it is given.
AnnotUnits == {"a", "t", "."}

HtmlInputs == {Undefined} \cup {Str(h) : h \in SeqsUpTo(AnnotUnits, MaxHtmlLen)}

PlainTextInputs == {Undefined, Str(<<"a", "t", ".">>), Str(<<"t", "a">>)}

AnnotEntityInputs ==
  {AnnotEntity(Str(<<"P">>), Num(0), Num(2), Undefined),
   AnnotEntity(Str(<<"Q">>), Num(0), Num(1), Undefined),
   AnnotEntity(Str(<<"Q">>), Num(1), Num(2), Undefined),
   AnnotEntity(Str(<<"P">>), Num(2), Num(3), Undefined),
   AnnotEntity(Undefined, Num(0), Num(1), Undefined),
   AnnotEntity(Str(<<"P">>), Num(1), Num(1), Undefined),
   AnnotEntity(Str(<<"P">>), Undefined, Undefined, Str(<<"a">>)),
   NullEntity}

DisplayMapInputs == {NoDisplayMap, DisplayMap(<<<<"P">>>>, <<<<"N">>>>)}

Reverse(seq) == [i \in 1..Len(seq) |-> seq[Len(seq) + 1 - i]]

InitAnnotate ==
  /\ IdleRequests
  /\ ui = IdleUi
  /\ args \in [fn : {"applyAnonymizationToHtml"},
               html : HtmlInputs,
               plainText : PlainTextInputs,
               entities : SeqsUpTo(AnnotEntityInputs, MaxAnnotEntities),
               entityTypeDisplayMap : DisplayMapInputs]
  /\ result = <<>>

CallApplyAnonymizationToHtml ==
  /\ args.fn = "applyAnonymizationToHtml"
  /\ result = <<>>
  /\ result' = <<applyAnonymizationToHtml(args.html, args.plainText, args.entities,
                                         args.entityTypeDisplayMap)>>
  /\ args' = [args EXCEPT !.entities = foundTextsSet(args.plainText, args.entities)]
  /\ UNCHANGED <<req, ui>>

CallApplyReversed ==
  /\ args.fn = "applyAnonymizationToHtml"
  /\ Len(result) = 1
  /\ result' = Append(result,
                      applyAnonymizationToHtml(args.html, args.plainText,
                                               Reverse(args.entities),
                                               args.entityTypeDisplayMap))
  /\ UNCHANGED <<req, args, ui>>

NextAnnotate == CallApplyAnonymizationToHtml \/ CallApplyReversed

SpecAnnotate == InitAnnotate /\ [][NextAnnotate]_vars

\* The component: a submission is answered, findings are toggled, the
\* effect re-renders after each change of its dependencies, before the next
\* event is handled.
SubmissionInputs ==
  [html : SeqsUpTo(AnnotUnits, MaxUiHtmlLen), text : {<<"a", "t", ".">>, <<"t", "a", "t">>}]

UiEntityInputs ==
  {AnnotEntity(Str(<<"P">>), Num(0), Num(2), Undefined),
   AnnotEntity(Str(<<"Q">>), Num(0), Num(1), Undefined),
   AnnotEntity(Str(<<"Q">>), Num(1), Num(2), Undefined),
   AnnotEntity(Str(<<"P">>), Num(2), Num(3), Undefined),
   NullEntity}

ResponseInputs == [entities : SeqsUpTo(UiEntityInputs, MaxUiEntities)]

InitUi ==
  /\ IdleRequests
  /\ args = NoCall
  /\ result = <<>>
  /\ ui = IdleUi

SubmitAnswered ==
  /\ ~ui.submitted
  /\ \E submission \in SubmissionInputs, data \in ResponseInputs,
        displayMap \in DisplayMapInputs :
       ui' = AfterSubmit(ui, submission, data, displayMap)
  /\ UNCHANGED <<req, args, result>>

handleFindingToggle ==
  /\ ui.submitted
  /\ ~ui.effectPending
  /\ \E i \in 1..Len(ui.entities), isChecked \in BOOLEAN :
       ui' = AfterFindingToggle(ui, buildEntityId(ui.entities[i], i - 1), isChecked)
  /\ UNCHANGED <<req, args, result>>

RenderEffect ==
  /\ ui.submitted
  /\ ui.effectPending
  /\ ui' = [ui EXCEPT !.displayHtml = effectHtml(ui), !.effectPending = FALSE]
  /\ UNCHANGED <<req, args, result>>

NextUi == SubmitAnswered \/ handleFindingToggle \/ RenderEffect

SpecUi == InitUi /\ [][NextUi]_vars

(***************************************************************************)
(* The way of one request through the middleware to the /api router.       *)
(***************************************************************************)
MountInputs ==
  {API_MOUNT, <<"/", "A", "P", "I">>, <<"/", "A", "p", "i">>, <<"/", "a", "p">>,
   <<"/", "a", "p", "i", "a">>}

ApiRequests ==
  [fn : {"request"}, mount : MountInputs, route : ApiRoutes,
   isAuthenticated : {"absent", "false", "true"}, userId : {0, 1}]

InitAuth ==
  /\ IdleRequests
  /\ ui = IdleUi
  /\ args \in ApiRequests
  /\ result = <<>>

\* src/polly.js lines 117-122: the pages router is mounted at "/" before the
\* /api router, and its first layer is the middleware.
PagesEnsureAuthenticated ==
  /\ args.fn = "request"
  /\ result = <<>>
  /\ result' = <<ensureAuthenticated(args)>>
  /\ UNCHANGED <<req, args, ui>>

\* src/polly.js lines 124-130: no route of the pages router is under /api, so
\* the request goes on to the mount of the /api router, or to no route.
ApiMount ==
  /\ args.fn = "request"
  /\ result = <<"next">>
  /\ result' = Append(result, IF mountMatches(args) THEN "router" ELSE "404")
  /\ UNCHANGED <<req, args, ui>>

\* src/routes/anonymize.js line 178: router.use(ensureAuthenticated).
ApiEnsureAuthenticated ==
  /\ args.fn = "request"
  /\ result = <<"next", "router">>
  /\ result' = Append(result, ensureAuthenticated(args))
  /\ UNCHANGED <<req, args, ui>>

\* The handler of the route runs.
RouteHandler ==
  /\ args.fn = "request"
  /\ result = <<"next", "router", "next">>
  /\ result' = Append(result, routeHandler(args))
  /\ UNCHANGED <<req, args, ui>>

NextAuth ==
  PagesEnsureAuthenticated \/ ApiMount \/ ApiEnsureAuthenticated \/ RouteHandler

SpecAuth == InitAuth /\ [][NextAuth]_vars

(***************************************************************************)
(* A session of the component: submissions, loads of saved records, saves, *)
(* resets and toggles, with the responses arriving in any order.  ui is    *)
(* what is shown, args the rest of the state of the component, result the  *)
(* records the server has stored, each with the markup that was displayed  *)
(* and the last-saved signature when the save was asked for.  actions      *)
(* lists the submissions, loads and resets in the order they were started, *)
(* with the payload each led to once its response arrived; saveAnswered    *)
(* tells that a save has succeeded since the last of them was started.     *)
(***************************************************************************)
MaxSessionActions == 4

SessionSubmissions ==
  {[html |-> <<"t", "a">>, text |-> <<"t", "a">>], [html |-> <<"a">>, text |-> <<"a">>]}

SessionResponses ==
  {[entities |-> <<AnnotEntity(Str(<<"P">>), Num(0), Num(2), Undefined)>>],
   [entities |-> <<AnnotEntity(Str(<<"Q">>), Num(0), Num(1), Undefined)>>]}

IdleSession ==
  [fn |-> "session",
   payload |-> NoPayload,
   currentResultSignature |-> <<>>,
   lastSavedSignature |-> <<>>,
   isSubmitting |-> FALSE,
   isSavingAnonymization |-> FALSE,
   inflight |-> {},
   started |-> 0,
   saves |-> 0,
   saveAnswered |-> FALSE,
   actions |-> <<>>]

InitSession ==
  /\ IdleRequests
  /\ args = IdleSession
  /\ result = <<>>
  /\ ui = IdleUi

\* A handler that waits for its response.
Waiting(kind, seq, submission, id, payload, signature) ==
  [kind |-> kind, seq |-> seq, submission |-> submission, id |-> id, payload |-> payload,
   signature |-> signature, displayHtml |-> ui.displayHtml,
   lastSavedSignature |-> args.lastSavedSignature]

NoSubmission == [html |-> <<>>, text |-> <<>>]

Started(kind, status, payload) == [kind |-> kind, status |-> status, payload |-> payload]

MayStart ==
  /\ args.fn = "session"
  /\ args.started < MaxSessionActions
  /\ ~ui.effectPending

\* Lines 825-866: the form is submitted; the button is disabled while a
\* submission waits.
handleSubmit ==
  /\ MayStart
  /\ ~args.isSubmitting
  /\ \E submission \in SessionSubmissions :
       args' = [args EXCEPT
                  !.isSubmitting = TRUE,
                  !.started = @ + 1,
                  !.saveAnswered = FALSE,
                  !.actions = Append(@, Started("submit", "pending", NoPayload)),
                  !.inflight = @ \cup {Waiting("submit", Len(args.actions) + 1, submission,
                                               0, NoPayload, <<>>)}]
  /\ UNCHANGED <<req, result, ui>>

\* Lines 867-937: the response to a submission arrives.
SubmitResponds ==
  /\ args.fn = "session"
  /\ \E op \in args.inflight, ok \in BOOLEAN, data \in SessionResponses :
       /\ op.kind = "submit"
       /\ IF ok
            THEN LET shown == AfterSubmit(ui, op.submission, data,
                                          ui.entityTypeDisplayValueMap)
                     payload == submitPayload(shown)
                 IN  /\ ui' = shown
                     /\ args' = [args EXCEPT
                                   !.payload = payload,
                                   !.currentResultSignature = signatureOf(payload),
                                   !.lastSavedSignature = <<>>,
                                   !.isSubmitting = FALSE,
                                   !.actions[op.seq] = Started("submit", "ok", payload),
                                   !.inflight = @ \ {op}]
            ELSE /\ ui' = ui
                 /\ args' = [args EXCEPT
                               !.isSubmitting = FALSE,
                               !.actions[op.seq] = Started("submit", "failed", NoPayload),
                               !.inflight = @ \ {op}]
  /\ UNCHANGED <<req, result>>

\* Lines 952-966: a saved record is picked from the suggestions.
handleLoadSavedAnonymization ==
  /\ MayStart
  /\ \E id \in 1..Len(result) :
       args' = [args EXCEPT
                  !.started = @ + 1,
                  !.saveAnswered = FALSE,
                  !.actions = Append(@, Started("load", "pending", NoPayload)),
                  !.inflight = @ \cup {Waiting("load", Len(args.actions) + 1, NoSubmission,
                                               id, NoPayload, <<>>)}]
  /\ UNCHANGED <<req, result, ui>>

\* Lines 967-1090: the response to a load arrives.
LoadResponds ==
  /\ args.fn = "session"
  /\ \E op \in args.inflight, ok \in BOOLEAN :
       /\ op.kind = "load"
       /\ IF ok
            THEN LET payload == loadPayload(result[op.id].payload)
                 IN  /\ ui' = AfterLoad(ui, payload)
                     /\ args' = [args EXCEPT
                                   !.payload = payload,
                                   !.currentResultSignature = signatureOf(payload),
                                   !.lastSavedSignature = signatureOf(payload),
                                   !.actions[op.seq] = Started("load", "ok", payload),
                                   !.inflight = @ \ {op}]
            ELSE /\ ui' = ui
                 /\ args' = [args EXCEPT
                               !.actions[op.seq] = Started("load", "failed", NoPayload),
                               !.inflight = @ \ {op}]
  /\ UNCHANGED <<req, result>>

\* Lines 1116-1136: the save button, enabled by canSaveCurrentResult, is
\* pressed and the handler posts the payload.
handleSaveCurrentResult ==
  /\ MayStart
  /\ canSaveCurrentResult(args)
  /\ savePosts(args)
  /\ args' = [args EXCEPT
                !.isSavingAnonymization = TRUE,
                !.started = @ + 1,
                !.saves = @ + 1,
                !.inflight = @ \cup {Waiting("save", 0, NoSubmission, 0, args.payload,
                                             signatureOf(args.payload))}]
  /\ UNCHANGED <<req, result, ui>>

\* Lines 1137-1154, and the server's insert (src/routes/anonymize.js lines
\* 310-364): the response to a save arrives.
SaveResponds ==
  /\ args.fn = "session"
  /\ \E op \in args.inflight, ok \in BOOLEAN :
       /\ op.kind = "save"
       /\ IF ok
            THEN /\ result' = Append(result, [payload |-> op.payload,
                                              displayHtml |-> op.displayHtml,
                                              lastSavedSignature |-> op.lastSavedSignature])
                 /\ args' = [args EXCEPT
                               !.lastSavedSignature = op.signature,
                               !.currentResultSignature = op.signature,
                               !.isSavingAnonymization = FALSE,
                               !.saveAnswered = TRUE,
                               !.inflight = @ \ {op}]
            ELSE /\ result' = result
                 /\ args' = [args EXCEPT
                               !.isSavingAnonymization = FALSE,
                               !.inflight = @ \ {op}]
  /\ UNCHANGED <<req, ui>>

\* Lines 1178-1206; the button is disabled while a submission waits.
handleReset ==
  /\ MayStart
  /\ ~args.isSubmitting
  /\ ui' = AfterReset(ui)
  /\ args' = [args EXCEPT
                !.payload = NoPayload,
                !.currentResultSignature = <<>>,
                !.lastSavedSignature = <<>>,
                !.isSavingAnonymization = FALSE,
                !.started = @ + 1,
                !.saveAnswered = FALSE,
                !.actions = Append(@, Started("reset", "ok", NoPayload))]
  /\ UNCHANGED <<req, result>>

NextSession ==
  \/ handleSubmit \/ SubmitResponds
  \/ handleLoadSavedAnonymization \/ LoadResponds
  \/ handleSaveCurrentResult \/ SaveResponds
  \/ handleReset
  \/ handleFindingToggle \/ RenderEffect

SpecSession == InitSession /\ [][NextSession]_vars

(***************************************************************************)
(* The stored records: the tables anonymizer_presets and                   *)
(* anonymizer_saved_runs and the services that read and write them.  args  *)
(* holds the two tables and their AUTOINCREMENT counters, result the last  *)
(* call with the tables as they were before it.  Of the settings columns   *)
(* of a preset, written together by one statement, ner_model stands for    *)
(* all; of the columns of a saved run, source_text and result_text.        *)
(***************************************************************************)
MaxPresetRows == 2

MaxSavedRuns == 2

PRESET_NAME_LIMIT == 150

SUGGESTION_LIMIT == 10

EN_CORE_WEB_LG == <<"en_core_web_lg">>

EAcute == "U+00E9"

CapEAcute == "U+00C9"

\* The SQL function lower() of SQLite: the upper-case letters of ASCII are
\* converted, every other character is left as it is.
sqlLowerUnit(c) ==
  CASE c = "A" -> "a"
    [] c = "I" -> "i"
    [] c = "P" -> "p"
    [] c = "Q" -> "q"
    [] OTHER -> c

sqlLower(s) == [i \in 1..Len(s) |-> sqlLowerUnit(s[i])]

normalizeName(value) == slice(trim(value), 0, PRESET_NAME_LIMIT)

normalizeNerModel(value) ==
  IF trim(value) = <<>> THEN EN_CORE_WEB_LG ELSE trim(value)

PresetRow(id, userId, name, nerModel) ==
  [id |-> id, user_id |-> userId, name |-> name, nerModel |-> nerModel]

RunRow(id, userId, sourceText, resultText) ==
  [id |-> id, user_id |-> userId, sourceText |-> sourceText,
   resultText |-> resultText]

EmptyStore == [presets |-> {}, presetSeq |-> 0, runs |-> {}, runSeq |-> 0]

\* A returned value: null, a thrown error, or the rows.
Null == [rows |-> {}, value |-> "null"]

Throws(code) == [rows |-> {}, value |-> code]

Rows(rows) == [rows |-> rows, value |-> "rows"]

OneRow(rows) == IF rows = {} THEN Null ELSE Rows(rows)

\* WHERE user_id = ? ORDER BY name COLLATE NOCASE
listPresetsForUser(store, userId) ==
  IF userId = 0 THEN Rows({})
  ELSE Rows({row \in store.presets : row.user_id = userId})

\* WHERE user_id = ? AND id = ?
getPresetByIdForUser(store, userId, presetId) ==
  IF userId = 0 \/ presetId = 0 THEN Null
  ELSE OneRow({row \in store.presets :
                 row.user_id = userId /\ row.id = presetId})

\* WHERE user_id = ? AND lower(name) = lower(?)
selectByNameStatement(store, userId, name) ==
  {row \in store.presets :
     row.user_id = userId /\ sqlLower(row.name) = sqlLower(name)}

\* UPDATE ... SET ner_model = ?, ... WHERE id = ? AND user_id = ?
updateStatement(store, nerModel, id, userId) ==
  [store EXCEPT !.presets =
     {IF row.id = id /\ row.user_id = userId
        THEN [row EXCEPT !.nerModel = nerModel] ELSE row : row \in @}]

\* INSERT INTO anonymizer_presets: the row takes the next id; the statement
\* fails on UNIQUE(user_id, name), which compares the names unit for unit.
insertViolatesUnique(store, userId, name) ==
  \E row \in store.presets : row.user_id = userId /\ row.name = name

insertStatement(store, userId, name, nerModel) ==
  [store EXCEPT
     !.presets = @ \cup {PresetRow(store.presetSeq + 1, userId, name, nerModel)},
     !.presetSeq = @ + 1]

\* savePresetForUser: the store after the call and the value returned.
savePresetForUser(store, userId, name, nerModel) ==
  LET normalizedName == normalizeName(name)
      normalizedNerModel == normalizeNerModel(nerModel)
      existing == selectByNameStatement(store, userId, normalizedName)
      first == CHOOSE row \in existing : \A other \in existing : row.id <= other.id
      updated == updateStatement(store, normalizedNerModel, first.id, userId)
      inserted == insertStatement(store, userId, normalizedName, normalizedNerModel)
  IN  CASE userId = 0 -> [store |-> store, returned |-> Throws("no user")]
        [] userId # 0 /\ normalizedName = <<>> ->
             [store |-> store, returned |-> Throws("NAME_REQUIRED")]
        [] userId # 0 /\ normalizedName # <<>> /\ existing # {} ->
             [store |-> updated,
              returned |-> getPresetByIdForUser(updated, userId, first.id)]
        [] OTHER ->
             IF insertViolatesUnique(store, userId, normalizedName)
               THEN [store |-> store, returned |-> Throws("SQLITE_CONSTRAINT")]
               ELSE [store |-> inserted,
                     returned |-> getPresetByIdForUser(inserted, userId,
                                                       inserted.presetSeq)]

\* The delete statement without its owner: DELETE ... WHERE id = ?
deletePresetAnyOwner(store, userId, presetId) ==
  LET removed == {row \in store.presets : row.id = presetId}
  IN  IF userId = 0 \/ presetId = 0
        THEN [store |-> store, returned |-> FALSE]
        ELSE [store |-> [store EXCEPT !.presets = @ \ removed],
              returned |-> removed # {}]

\* deletePresetForUser: DELETE ... WHERE id = ? AND user_id = ?; true when
\* a row was deleted.
deletePresetForUser(store, userId, presetId) ==
  LET removed == {row \in store.presets :
                    row.id = presetId /\ row.user_id = userId}
  IN  IF userId = 0 \/ presetId = 0
        THEN [store |-> store, returned |-> FALSE]
        ELSE [store |-> [store EXCEPT !.presets = @ \ removed],
              returned |-> removed # {}]

\* router.delete("/presets/:presetId"): the status answered.
deletePresetStatus(userId, removed) ==
  CASE userId = 0 -> 401
    [] userId # 0 /\ ~removed -> 404
    [] OTHER -> 204

\* WHERE user_id = ? AND id = ?
getAnonymizationForUser(store, userId, anonymizationId) ==
  IF userId = 0 \/ anonymizationId = 0 THEN Null
  ELSE OneRow({row \in store.runs :
                 row.user_id = userId /\ row.id = anonymizationId})

\* saveAnonymizationForUser: always an insert.
saveAnonymizationForUser(store, userId, sourceText, resultText) ==
  LET inserted ==
        [store EXCEPT
           !.runs = @ \cup {RunRow(store.runSeq + 1, userId, sourceText, resultText)},
           !.runSeq = @ + 1]
  IN  IF userId = 0 THEN [store |-> store, returned |-> Throws("no user")]
      ELSE [store |-> inserted,
            returned |-> getAnonymizationForUser(inserted, userId, inserted.runSeq)]

\* escapeQuery: the units % and _ are removed.
escapeQuery(value) == SelectSeq(value, LAMBDA c : c \notin {"%", "_"})

\* lower(column) LIKE lower('%' || query || '%')
sqlLike(column, query) == indexOf(sqlLower(column), sqlLower(query), 0) >= 0

\* searchAnonymizationsForUser: the recent rows of the user for an empty
\* query, else the rows of the user that match it; at most SUGGESTION_LIMIT
\* rows, which is more than the table holds here.
searchAnonymizationsForUser(store, userId, query) ==
  LET trimmedQuery == trim(query)
      own == {row \in store.runs : row.user_id = userId}
      matching == {row \in own :
                     \/ sqlLike(row.sourceText, escapeQuery(trimmedQuery))
                     \/ sqlLike(row.resultText, escapeQuery(trimmedQuery))}
      found == IF trimmedQuery = <<>> THEN own ELSE matching
  IN  IF userId = 0 THEN Rows({})
      ELSE IF Cardinality(found) <= SUGGESTION_LIMIT THEN Rows(found)
      ELSE Rows({row \in found :
                   Cardinality({later \in found : later.id > row.id})
                     < SUGGESTION_LIMIT})

StoreUsers == {1, 2}

CallerIds == {0, 1, 2}

PresetNameInputs ==
  {<<"a">>, <<"A">>, <<" ", "a">>, <<EAcute>>, <<CapEAcute>>, <<" ">>}

NerModelInputs == {<<>>, <<"m">>}

RunTextInputs == {<<<<"a">>, <<"Q">>>>}

QueryInputs == {<<>>, <<"%", "Q">>, <<"p">>}

StoreCall(fn, userId, id, name, returned, before) ==
  [fn |-> fn, userId |-> userId, id |-> id, name |-> name,
   returned |-> returned, status |-> 0, before |-> before]

InitStore ==
  /\ IdleRequests
  /\ ui = IdleUi
  /\ args = EmptyStore
  /\ result = <<>>

CallSavePreset ==
  /\ \E userId \in CallerIds, name \in PresetNameInputs, nerModel \in NerModelInputs :
       LET done == savePresetForUser(args, userId, name, nerModel)
       IN  /\ done.store.presetSeq <= MaxPresetRows
           /\ args' = done.store
           /\ result' = <<StoreCall("savePresetForUser", userId, 0, name,
                                    done.returned, args)>>
  /\ UNCHANGED <<req, ui>>

CallDeletePreset ==
  /\ \E userId \in CallerIds, presetId \in 0..MaxPresetRows :
       LET done == deletePresetForUser(args, userId, presetId)
       IN  /\ args' = done.store
           /\ result' =
                <<[StoreCall("deletePresetForUser", userId, presetId, <<>>,
                             done.returned, args)
                     EXCEPT !.status = deletePresetStatus(userId, done.returned)]>>
  /\ UNCHANGED <<req, ui>>

CallListPresets ==
  /\ \E userId \in CallerIds :
       result' = <<StoreCall("listPresetsForUser", userId, 0, <<>>,
                             listPresetsForUser(args, userId), args)>>
  /\ UNCHANGED <<req, args, ui>>

CallGetPreset ==
  /\ \E userId \in CallerIds, presetId \in 0..MaxPresetRows :
       result' = <<StoreCall("getPresetByIdForUser", userId, presetId, <<>>,
                             getPresetByIdForUser(args, userId, presetId), args)>>
  /\ UNCHANGED <<req, args, ui>>

CallSaveAnonymization ==
  /\ args.runSeq < MaxSavedRuns
  /\ \E userId \in CallerIds, texts \in RunTextInputs :
       LET done == saveAnonymizationForUser(args, userId, texts[1], texts[2])
       IN  /\ args' = done.store
           /\ result' = <<StoreCall("saveAnonymizationForUser", userId, 0,
                                    texts[1], done.returned, args)>>
  /\ UNCHANGED <<req, ui>>

CallSearchAnonymizations ==
  /\ \E userId \in CallerIds, query \in QueryInputs :
       result' = <<StoreCall("searchAnonymizationsForUser", userId, 0, query,
                             searchAnonymizationsForUser(args, userId, query),
                             args)>>
  /\ UNCHANGED <<req, args, ui>>

CallGetAnonymization ==
  /\ \E userId \in CallerIds, anonymizationId \in 0..MaxSavedRuns :
       result' = <<StoreCall("getAnonymizationForUser", userId, anonymizationId,
                             <<>>,
                             getAnonymizationForUser(args, userId, anonymizationId),
                             args)>>
  /\ UNCHANGED <<req, args, ui>>

NextStore ==
  \/ CallSavePreset \/ CallDeletePreset \/ CallListPresets \/ CallGetPreset
  \/ CallSaveAnonymization \/ CallSearchAnonymizations \/ CallGetAnonymization

SpecStore == InitStore /\ [][NextStore]_vars

(***************************************************************************)
(* Registration: POST /register by several clients at once.  args is the   *)
(* table users with its AUTOINCREMENT counter, result the requests: where  *)
(* each handler stands, what it was sent and what it answered.  A handler  *)
(* runs from one await to the next without another handler in between.     *)
(***************************************************************************)
MaxRegistrations == 3

RegistrationIds == 1..MaxRegistrations

EmailInputs == {<<>>, <<"a">>, <<"A">>, <<"q">>}

UserRow(id, email) == [id |-> id, email |-> email]

NoUsers == [users |-> {}, userSeq |-> 0]

IdleRegistration ==
  [pc |-> "idle", email |-> <<>>, answer |-> "none", user |-> 0,
   session |-> 0]

\* findUserByEmail: SELECT ... FROM users WHERE email = ?, asked with the
\* address in lower case.
findUserByEmail(table, email) ==
  {row \in table.users : row.email = toLowerCase(email)}

\* createUser up to its await: the error thrown, or none.
createUserChecks(table, email) ==
  IF email = <<>> THEN "Error"
  ELSE IF findUserByEmail(table, toLowerCase(email)) # {} THEN "USER_EXISTS"
  ELSE "none"

\* INSERT INTO users: fails on the UNIQUE constraint of the column email.
insertUser(table, email) ==
  IF \E row \in table.users : row.email = email
    THEN [table |-> table, id |-> 0, thrown |-> "SQLITE_CONSTRAINT_UNIQUE"]
    ELSE [table |-> [users |-> table.users \cup {UserRow(table.userSeq + 1, email)},
                     userSeq |-> table.userSeq + 1],
          id |-> table.userSeq + 1, thrown |-> "none"]

\* The catch of the handler: the answer to an error thrown by createUser.
catchOf(thrown) ==
  IF thrown = "USER_EXISTS" THEN "400 already exists" ELSE "next(error)"

\* The handler from its start to its first await: the form is validated,
\* the address looked up, and createUser runs up to bcrypt.hash.
registerReceived(table, r, email) ==
  LET sent == [r EXCEPT !.email = email]
      thrown == createUserChecks(table, email)
  IN  IF email = <<>>
        THEN [sent EXCEPT !.pc = "done", !.answer = "400 required"]
      ELSE IF findUserByEmail(table, email) # {}
        THEN [sent EXCEPT !.pc = "done", !.answer = "400 already exists"]
      ELSE IF thrown # "none"
        THEN [sent EXCEPT !.pc = "done", !.answer = catchOf(thrown)]
      ELSE [sent EXCEPT !.pc = "hashing"]

\* The handler after bcrypt.hash: the row is inserted and req.logIn called,
\* or the error of the insert caught.  Without the insert's outcome the
\* handler is as it was.
registerHashed(r, inserted) ==
  IF inserted.thrown # "none"
    THEN [r EXCEPT !.pc = "done", !.answer = catchOf(inserted.thrown)]
    ELSE [r EXCEPT !.pc = "logging in", !.user = inserted.id]

\* The callback of req.logIn, the session being written: redirect to "/".
registerLoggedIn(r) ==
  [r EXCEPT !.pc = "done", !.answer = "302 /", !.session = r.user]

InitRegister ==
  /\ IdleRequests
  /\ ui = IdleUi
  /\ args = NoUsers
  /\ result = [id \in RegistrationIds |-> IdleRegistration]

PostRegister(id) ==
  /\ result[id].pc = "idle"
  /\ \E email \in EmailInputs :
       result' = [result EXCEPT ![id] = registerReceived(args, @, email)]
  /\ UNCHANGED <<req, args, ui>>

HashResolves(id) ==
  /\ result[id].pc = "hashing"
  /\ LET inserted == insertUser(args, toLowerCase(result[id].email))
     IN  /\ args' = inserted.table
         /\ result' = [result EXCEPT ![id] = registerHashed(@, inserted)]
  /\ UNCHANGED <<req, ui>>

LogInCallback(id) ==
  /\ result[id].pc = "logging in"
  /\ result' = [result EXCEPT ![id] = registerLoggedIn(@)]
  /\ UNCHANGED <<req, args, ui>>

NextRegister ==
  \E id \in RegistrationIds :
    PostRegister(id) \/ HashResolves(id) \/ LogInCallback(id)

SpecRegister == InitRegister /\ [][NextRegister]_vars

(***************************************************************************)
(* The signature alone: buildResultSignature is called on two payloads.    *)
(***************************************************************************)
SignatureThresholdInputs ==
  {JUndefined, JNumber(30000000), JNumber(30000001), JNumber(30000040), JNumber(30000050),
   JNumber(31000000), JNumber(50000000), JString(<<"0", ".", "3">>), JNonFinite}

SignatureEntityTypeInputs ==
  {JUndefined, JArray(<<>>), JArray(<<JString(<<"P">>)>>), JArray(<<JString(<<"p", " ">>)>>),
   JArray(<<JString(<<"P">>), JString(<<"Q">>)>>),
   JArray(<<JString(<<"Q">>), JString(<<"P">>), JString(<<"P">>)>>),
   JArray(<<JString(<<"Q">>)>>)}

\* A finding with its keys in the order given.
Finding(type, score) ==
  JObject(<<JEntry(<<"t", "y", "p", "e">>, JString(type)), JEntry(<<"s", "c", "o", "r", "e">>, JNumber(score))>>)

\* An object with an object inside.
Nested(inner) == JObject(<<JEntry(<<"t", "y", "p", "e">>, JString(<<"P">>)), JEntry(<<"i", "t", "e", "m", "s">>, inner)>>)

FindingInputs ==
  {JUndefined, JArray(<<>>),
   JArray(<<Finding(<<"P">>, 85000000)>>),
   JArray(<<JObject(Reverse(Finding(<<"P">>, 85000000).a))>>),
   JArray(<<Finding(<<"P">>, 85000001)>>),
   JArray(<<Finding(<<"P">>, 85000100)>>),
   JArray(<<Finding(<<"Q">>, 85000000)>>),
   JArray(<<Finding(<<"P">>, 85000000), Finding(<<"Q">>, 100000000)>>),
   JArray(<<Finding(<<"Q">>, 100000000), Finding(<<"P">>, 85000000)>>),
   JArray(<<Nested(Finding(<<"Q">>, -25000000))>>),
   JArray(<<JObject(Reverse(Nested(JObject(Reverse(Finding(<<"Q">>, -25000000).a))).a))>>),
   JArray(<<Nested(Finding(<<"Q">>, -25000049))>>),
   JArray(<<Nested(JArray(<<JString(<<"Q">>), JNumber(-25000000)>>))>>)}

ItemInputs ==
  {JArray(<<>>),
   JArray(<<JString(<<"a">>), JString(<<"a">>)>>),
   JArray(<<JString(<<"a", ",", "a">>)>>),
   JArray(<<JString(<<"a", "\"", ",", "\"", "a">>)>>),
   JArray(<<JString(<<"a", "\\">>), JString(<<"a">>)>>),
   JArray(<<JString(<<"a", "\\", "\"", ",", "\"", "a">>)>>),
   JArray(<<JNull>>), JArray(<<JNonFinite>>), JArray(<<JString(null)>>),
   JArray(<<JArray(<<>>)>>), JArray(<<JObject(<<>>)>>),
   JArray(<<JNumber(100000000)>>), JArray(<<JString(<<"1">>)>>)}

SourceTextInputs == {JUndefined, JString(<<>>), JString(<<"a">>), JString(<<"a", " ">>)}

Present(entry) == entry.value.t # "undefined"

\* A payload with the fields in this order; an undefined field is left out.
Payload(threshold, entityTypes, entities, items, sourceText) ==
  JObject(SelectSeq(<<JEntry(<<"t", "h", "r", "e", "s", "h", "o", "l", "d">>, threshold),
                      JEntry(<<"e", "n", "t", "i", "t", "y", "T", "y", "p", "e", "s">>, entityTypes),
                      JEntry(<<"e", "n", "t", "i", "t", "i", "e", "s">>, entities),
                      JEntry(<<"i", "t", "e", "m", "s">>, items),
                      JEntry(<<"s", "o", "u", "r", "c", "e", "T", "e", "x", "t">>, sourceText)>>, Present))

BasePayloads ==
  {Payload(threshold, JArray(<<JString(<<"P">>)>>), JArray(<<>>), JArray(<<>>),
           JString(<<"a">>)) : threshold \in SignatureThresholdInputs}
  \cup {Payload(JNumber(30000000), entityTypes, JArray(<<>>), JArray(<<>>),
                JString(<<"a">>)) : entityTypes \in SignatureEntityTypeInputs}
  \cup {Payload(JNumber(30000000), JArray(<<JString(<<"P">>)>>), entities, JArray(<<>>),
                JString(<<"a">>)) : entities \in FindingInputs}
  \cup {Payload(JNumber(30000000), JArray(<<JString(<<"P">>)>>), JArray(<<>>), items,
                JString(<<"a">>)) : items \in ItemInputs}
  \cup {Payload(JNumber(30000000), JArray(<<JString(<<"P">>)>>), JArray(<<>>), JArray(<<>>),
                sourceText) : sourceText \in SourceTextInputs}

PayloadInputs ==
  BasePayloads \cup {JObject(Reverse(payload.a)) : payload \in BasePayloads} \cup {JNull}

InitSignature ==
  /\ IdleRequests
  /\ ui = IdleUi
  /\ args \in [fn : {"buildResultSignature"},
               payload : PayloadInputs,
               savedPayload : PayloadInputs]
  /\ result = <<>>

\* The signature of the current result (line 1121).
CallBuildResultSignature ==
  /\ args.fn = "buildResultSignature"
  /\ result = <<>>
  /\ result' = <<buildResultSignature(args.payload)>>
  /\ UNCHANGED <<req, args, ui>>

\* The signature of the record that was saved (line 1049).
CallBuildSavedSignature ==
  /\ args.fn = "buildResultSignature"
  /\ Len(result) = 1
  /\ result' = Append(result, buildResultSignature(args.savedPayload))
  /\ UNCHANGED <<req, args, ui>>

NextSignature == CallBuildResultSignature \/ CallBuildSavedSignature

SpecSignature == InitSignature /\ [][NextSignature]_vars

(***************************************************************************)
(* Properties of the term-policy stage, under SpecPolicy.                  *)
(***************************************************************************)
\* The call of shouldIncludeEntity has returned.
PolicyReturned == args.fn = "shouldIncludeEntity" /\ Len(result) = 1

\* The entity is an object with finite offsets, start before end.
WellFormed(entity) ==
  /\ entity.obj
  /\ entity.start.k = "number"
  /\ entity.end.k = "number"
  /\ entity.start.n < entity.end.n

\* source[start:end], trimmed.
TrimmedFoundText(entity, sourceText) ==
  trim(slice(sourceText, entity.start.n, entity.end.n))

\* source[start:end], trimmed and lowercased.
FoundText(entity, sourceText) == toLowerCase(TrimmedFoundText(entity, sourceText))

\* C1: a well-formed entity whose normalized found-text is in the deny set
\* is included, also when the same term is in the allow set.
C1_DenyPrecedence ==
  (/\ PolicyReturned
   /\ WellFormed(args.entity)
   /\ FoundText(args.entity, args.sourceText) \in Range(args.denylistSet))
    => result[1] = TRUE

\* A call was made for an entity whose found-text is in both sets, and the
\* entity was included.
C1_Witness ==
  /\ PolicyReturned
  /\ WellFormed(args.entity)
  /\ FoundText(args.entity, args.sourceText) \in Range(args.denylistSet)
  /\ FoundText(args.entity, args.sourceText) \in Range(args.allowlistSet)
  /\ result[1] = TRUE

\* C3: a well-formed entity whose found-text is in the allow set and not in
\* the deny set is excluded; one whose non-empty found-text is in neither
\* set is included; one whose found-text is empty after trimming is excluded.
C3_AllowExcludesDefaultIncludes ==
  (PolicyReturned /\ WellFormed(args.entity)) =>
    LET found == FoundText(args.entity, args.sourceText)
        inAllow == found \in Range(args.allowlistSet)
        inDeny == found \in Range(args.denylistSet)
    IN  /\ (inAllow /\ ~inDeny) => result[1] = FALSE
        /\ (found # <<>> /\ ~inAllow /\ ~inDeny) => result[1] = TRUE
        /\ TrimmedFoundText(args.entity, args.sourceText) = <<>>
             => result[1] = FALSE

\* A call excluded an entity because its found-text is allowed and not
\* denied, while the deny set is not empty.
C3_Witness ==
  /\ PolicyReturned
  /\ WellFormed(args.entity)
  /\ FoundText(args.entity, args.sourceText) \in Range(args.allowlistSet)
  /\ FoundText(args.entity, args.sourceText) \notin Range(args.denylistSet)
  /\ args.denylistSet # <<>>
  /\ result[1] = FALSE

(***************************************************************************)
(* Properties of the threshold stage, under SpecThreshold.                 *)
(***************************************************************************)
ThresholdReturned == args.fn = "thresholdFiltered" /\ Len(result) = 1

\* The strings of ScoreInputs that do not start with a number.
NonNumericStrings == {<<>>, <<"x">>, <<"-">>}

\* C4: an entity with a numeric score equal to the threshold is kept, one
\* with a numeric score strictly below the threshold is removed.
C4_ThresholdBoundary ==
  ThresholdReturned =>
    \A i \in 1..Len(args.entities) :
      LET entity == args.entities[i]
      IN  (entity.obj /\ entity.score.k = "number") =>
            /\ entity.score.n = args.acceptanceThreshold
                 => entity \in Range(result[1])
            /\ entity.score.n < args.acceptanceThreshold
                 => entity \notin Range(result[1])

\* The stage ran on a list holding an entity at the threshold and an entity
\* one tenth below it.
C4_Witness ==
  /\ ThresholdReturned
  /\ \E i, j \in 1..Len(args.entities) :
       /\ args.entities[i].obj /\ args.entities[i].score.k = "number"
       /\ args.entities[j].obj /\ args.entities[j].score.k = "number"
       /\ args.entities[i].score.n = args.acceptanceThreshold
       /\ args.entities[j].score.n = args.acceptanceThreshold - 1
       /\ result[1] = <<args.entities[i]>>

\* The score is absent or cannot be parsed as a finite number.
ScoreMissing(entity) ==
  \/ entity.score.k \in {"undefined", "nonfinite"}
  \/ entity.score.k = "string" /\ entity.score.s \in NonNumericStrings

\* C5: an entity object whose score is absent or not parseable as a finite
\* number passes the threshold stage for every threshold in [0,1].
C5_MissingScorePasses ==
  ThresholdReturned =>
    \A i \in 1..Len(args.entities) :
      (args.entities[i].obj /\ ScoreMissing(args.entities[i]))
        => args.entities[i] \in Range(result[1])

\* The stage ran with the threshold 1 on an entity without a score and on
\* an entity whose score is a string that is no number, and kept both.
C5_Witness ==
  /\ ThresholdReturned
  /\ args.acceptanceThreshold = 10
  /\ Len(args.entities) = 2
  /\ args.entities[1].obj /\ args.entities[1].score.k = "undefined"
  /\ args.entities[2].obj /\ args.entities[2].score.k = "string"
  /\ ScoreMissing(args.entities[2])
  /\ result[1] = args.entities

(***************************************************************************)
(* Properties of mergeEntities, under SpecMerge.                           *)
(***************************************************************************)
MergeReturned == args.fn = "mergeEntities" /\ Len(result) >= 1

\* The primary list followed by the supplemental list.
MergeOrder == args.baseEntities \o args.supplementalEntities

\* The positions of seq that hold the first well-formed entity of a key.
FirstOfKey(seq) ==
  {i \in 1..Len(seq) :
     /\ WellFormed(seq[i])
     /\ \A j \in 1..(i - 1) :
          WellFormed(seq[j]) => DedupKey(seq[j]) # DedupKey(seq[i])}

\* The entities of seq at the positions of keep, in the order of seq.
RECURSIVE Restrict(_, _)
Restrict(seq, keep) ==
  IF seq = <<>> THEN <<>>
  ELSE LET n == Len(seq)
           init == Restrict(SubSeq(seq, 1, n - 1), keep)
       IN  IF n \in keep THEN Append(init, seq[n]) ELSE init

\* C6: the output holds at most one entity per dedup key, and the entity
\* kept for a key is the first one with that key in the order primary, then
\* supplemental.
C6_MergeUniqueFirstSeen ==
  MergeReturned =>
    LET out == result[1]
    IN  /\ \A i, j \in 1..Len(out) :
             i # j => DedupKey(out[i]) # DedupKey(out[j])
        /\ \A i \in 1..Len(out) :
             \E k \in FirstOfKey(MergeOrder) : out[i] = MergeOrder[k]
        /\ \A k \in FirstOfKey(MergeOrder) :
             \E i \in 1..Len(out) : out[i] = MergeOrder[k]

\* A supplemental entity with the key of a primary entity and another score
\* was suppressed in favour of the primary record.
C6_Witness ==
  /\ MergeReturned
  /\ \E i \in 1..Len(args.baseEntities), j \in 1..Len(args.supplementalEntities) :
       /\ WellFormed(args.baseEntities[i])
       /\ WellFormed(args.supplementalEntities[j])
       /\ DedupKey(args.baseEntities[i]) = DedupKey(args.supplementalEntities[j])
       /\ args.baseEntities[i] # args.supplementalEntities[j]
       /\ args.baseEntities[i] \in Range(result[1])
       /\ args.supplementalEntities[j] \notin Range(result[1])

\* C7: the output is the kept primary entities in their original relative
\* order followed by the kept supplemental entities in theirs.
C7_MergeOrderStable ==
  MergeReturned =>
    /\ result[1] = Restrict(MergeOrder, FirstOfKey(MergeOrder))
    /\ \E k \in 0..Len(result[1]) :
         /\ \A i \in 1..k : result[1][i] \in Range(args.baseEntities)
         /\ \A i \in (k + 1)..Len(result[1]) :
              /\ result[1][i] \in Range(args.supplementalEntities)
              /\ \A j \in 1..Len(args.baseEntities) :
                   WellFormed(args.baseEntities[j]) =>
                     DedupKey(args.baseEntities[j]) # DedupKey(result[1][i])

\* Two primary entities were kept, then of two supplemental entities the
\* first was suppressed (its key is a primary entity's) and the second kept.
C7_Witness ==
  /\ MergeReturned
  /\ Len(args.baseEntities) = 2
  /\ Len(args.supplementalEntities) = 2
  /\ WellFormed(args.supplementalEntities[1])
  /\ args.supplementalEntities[1] \notin Range(args.baseEntities)
  /\ result[1] = args.baseEntities \o <<args.supplementalEntities[2]>>

\* The list holds well-formed entities only, no two with the same key.
DistinctWellFormed(seq) == FirstOfKey(seq) = 1..Len(seq)

KeysOf(seq) == [i \in 1..Len(seq) |-> DedupKey(seq[i])]

\* C8 as stated, in its weakest reading (lists of well-formed entities,
\* compared by key): merging a list with itself yields the same dedup keys
\* in the same order.
C8_MergeSelfYieldsList ==
  (/\ MergeReturned
   /\ args.baseEntities = args.supplementalEntities
   /\ \A i \in 1..Len(args.baseEntities) : WellFormed(args.baseEntities[i]))
    => KeysOf(result[1]) = KeysOf(args.baseEntities)

\* C8 as amended: merging a list of well-formed entities with pairwise
\* distinct keys with itself yields the list; for any list, the result is
\* the list without its malformed records and without the later entities of
\* a repeated key, and merging the result with the list again changes
\* nothing.
C8_MergeIdempotent ==
  (MergeReturned /\ args.baseEntities = args.supplementalEntities) =>
    /\ DistinctWellFormed(args.baseEntities) => result[1] = args.baseEntities
    /\ result[1] = Restrict(args.baseEntities, FirstOfKey(args.baseEntities))
    /\ Len(result) = 2 => result[2] = result[1]

\* A list of two well-formed entities with distinct keys was merged with
\* itself, and the result with the list again.
C8_Witness ==
  /\ args.fn = "mergeEntities"
  /\ Len(result) = 2
  /\ args.baseEntities = args.supplementalEntities
  /\ Len(args.baseEntities) = 2
  /\ DistinctWellFormed(args.baseEntities)
  /\ result[2] = args.baseEntities

(***************************************************************************)
(* Properties of the route, under Spec.                                    *)
(***************************************************************************)
\* The handler of the request has built the list for the anonymizer.
ListSent(id) == req[id].anonymizerCalls > 0

\* term, a lowercase string, occurs in source at [start, end) whatever the
\* case of the letters.
OccursAt(source, term, start, end) ==
  /\ 0 <= start
  /\ start < end
  /\ end <= Len(source)
  /\ toLowerCase(SubSeq(source, start + 1, end)) = term

\* The spans of the occurrences of term in source taken from left to right
\* from the position cursor on, none overlapping the one before it.
RECURSIVE OccurrencesFrom(_, _, _)
OccurrencesFrom(source, term, cursor) ==
  LET spans == {span \in (cursor..Len(source)) \X (cursor..Len(source)) :
                  OccursAt(source, term, span[1], span[2])}
  IN  IF spans = {} THEN {}
      ELSE LET first == CHOOSE span \in spans :
                          \A other \in spans : span[1] <= other[1]
           IN  {first} \cup OccurrencesFrom(source, term, first[2])

IsDenylistEntityAt(entity, span) ==
  /\ entity.entity_type = Str(DENYLIST_TERM)
  /\ entity.start = Num(span[1])
  /\ entity.end = Num(span[2])

\* C2: for every deny term and every occurrence of it in the source text
\* (case-insensitive, left to right, non-overlapping), the list sent to the
\* anonymizer holds a DENYLIST_TERM entity with exactly that span.
C2_DenylistFloor ==
  \A id \in ReqIds :
    ListSent(id) =>
      \A t \in 1..Len(req[id].denylistSet) :
        \A span \in OccurrencesFrom(req[id].text.s, req[id].denylistSet[t], 0) :
          \E i \in 1..Len(req[id].filteredAnalyzerResults) :
            IsDenylistEntityAt(req[id].filteredAnalyzerResults[i], span)

\* The same for the source texts without U+0130, whose lower case has the
\* length of the text: there the floor holds.
DenylistFloorSameLength ==
  \A id \in ReqIds :
    (ListSent(id) /\ CapIDot \notin Range(req[id].text.s)) =>
      \A t \in 1..Len(req[id].denylistSet) :
        \A span \in OccurrencesFrom(req[id].text.s, req[id].denylistSet[t], 0) :
          \E i \in 1..Len(req[id].filteredAnalyzerResults) :
            IsDenylistEntityAt(req[id].filteredAnalyzerResults[i], span)

\* Every entity the scan of the lowercased text emits is in the list sent,
\* or an analyzer entity with its key is.
ScannedEntitiesSent ==
  \A id \in ReqIds :
    ListSent(id) =>
      LET scanned == findDenylistEntities(req[id].text.s, req[id].denylistSet)
      IN  \A j \in 1..Len(scanned) :
            \E i \in 1..Len(req[id].filteredAnalyzerResults) :
              DedupKey(req[id].filteredAnalyzerResults[i]) = DedupKey(scanned[j])

\* The number a request value stands for: itself, or what its string starts
\* with; NonFinite when it is no number.
NumericValue(raw) ==
  CASE raw.k = "number" -> raw
    [] raw.k = "string" -> parseFloat(raw.s)
    [] OTHER -> NonFinite

\* C9: the threshold the pipeline uses is in [0,1]; a non-numeric request
\* value becomes 0.5, a numeric value above 1 becomes 1 and one below 0
\* becomes 0.
C9_ThresholdClamped ==
  \A id \in ReqIds :
    req[id].pc # "idle" =>
      LET value == NumericValue(req[id].rawThreshold)
          used == req[id].acceptanceThreshold
      IN  /\ used \in 0..10
          /\ value.k # "number" => used = 5
          /\ (value.k = "number" /\ value.n > 10) => used = 10
          /\ (value.k = "number" /\ value.n < 0) => used = 0

\* What holds of the route: the threshold is in [0,1], a non-numeric value
\* becomes 0.5 and so does a numeric value out of range.
ThresholdDefaulted ==
  \A id \in ReqIds :
    req[id].pc # "idle" =>
      LET value == NumericValue(req[id].rawThreshold)
          used == req[id].acceptanceThreshold
      IN  /\ used \in 0..10
          /\ value.k # "number" => used = 5
          /\ (value.k = "number" /\ (value.n > 10 \/ value.n < 0)) => used = 5
          /\ (value.k = "number" /\ value.n \in 0..10) => used = value.n

\* C10: a request whose text is no string is answered 400, once; neither
\* service is called for it and no filtering stage runs.
C10_NonStringTextRejected ==
  \A id \in ReqIds :
    (req[id].pc # "idle" /\ req[id].text.k # "string") =>
      /\ req[id].pc = "done"
      /\ req[id].status = 400
      /\ req[id].responses = 1
      /\ req[id].analyzerCalls = 0
      /\ req[id].anonymizerCalls = 0
      /\ req[id].analyzerResults = NoResults
      /\ req[id].filteredAnalyzerResults = <<>>

\* A request without a text string was answered 400, while its deny list
\* was not empty.
C10_Witness ==
  \E id \in ReqIds :
    /\ req[id].pc = "done"
    /\ req[id].text.k # "string"
    /\ req[id].denylistSet # <<>>
    /\ req[id].status = 400

\* The analyzer answer without its malformed records; the empty array for
\* an answer that is no array.
WellFormedOnly(analyzerResults) ==
  [isArray |-> TRUE,
   items |-> IF analyzerResults.isArray
               THEN SelectSeq(analyzerResults.items, WellFormed)
               ELSE <<>>]

\* C11: once the analyzer's answer is read, whatever malformed records it
\* holds, the request goes on to the anonymizer (it is not answered before);
\* no malformed record is in the list sent, and the list is the one the
\* well-formed records alone give.
C11_MalformedTolerated ==
  \A id \in ReqIds :
    req[id].analyzerParsed =>
      LET r == req[id]
          sent == r.filteredAnalyzerResults
      IN  /\ r.anonymizerCalls = 1
          /\ r.pc = "awaitAnonymizer" => (r.responses = 0 /\ r.status = 0)
          /\ \A i \in 1..Len(sent) : WellFormed(sent[i])
          /\ \A i \in 1..Len(r.analyzerResults.items) :
               ~WellFormed(r.analyzerResults.items[i])
                 => r.analyzerResults.items[i] \notin Range(sent)
          /\ sent = filteredAnalyzerResults(
                      WellFormedOnly(r.analyzerResults), r.text.s,
                      r.entityTypeFilterSet, r.acceptanceThreshold,
                      r.allowlistSet, r.denylistSet)

\* An answer with a malformed record before a well-formed one was read, and
\* the well-formed record is in the list sent to the anonymizer.
C11_Witness ==
  \E id \in ReqIds :
    /\ req[id].analyzerParsed
    /\ req[id].pc = "awaitAnonymizer"
    /\ Len(req[id].analyzerResults.items) = 2
    /\ ~WellFormed(req[id].analyzerResults.items[1])
    /\ WellFormed(req[id].analyzerResults.items[2])
    /\ req[id].analyzerResults.items[2] \in Range(req[id].filteredAnalyzerResults)

\* C12: every entity of the list sent to the anonymizer, analyzer-derived
\* or denylist-derived, has integer offsets into the source text with
\* 0 <= start < end.
C12_OffsetsInSource ==
  \A id \in ReqIds :
    ListSent(id) =>
      \A i \in 1..Len(req[id].filteredAnalyzerResults) :
        LET entity == req[id].filteredAnalyzerResults[i]
        IN  /\ entity.start.k = "number"
            /\ entity.end.k = "number"
            /\ 0 <= entity.start.n
            /\ entity.start.n < entity.end.n
            /\ entity.end.n <= Len(req[id].text.s)

\* What the checks of shouldIncludeEntity and pushIfUnique give: finite
\* offsets with start < end, and a found-text that is not empty for the
\* analyzer-derived entities.
OffsetsOrdered ==
  \A id \in ReqIds :
    ListSent(id) =>
      \A i \in 1..Len(req[id].filteredAnalyzerResults) :
        LET entity == req[id].filteredAnalyzerResults[i]
        IN  /\ WellFormed(entity)
            /\ entity \in Range(req[id].analyzerResults.items)
                 => TrimmedFoundText(entity, req[id].text.s) # <<>>

\* The denylist-derived entities alone: 0 <= start < end, and end within
\* the lowercased text the scan ran on.
ScannedOffsetsInLowerText ==
  \A id \in ReqIds :
    ListSent(id) =>
      LET scanned == findDenylistEntities(req[id].text.s, req[id].denylistSet)
      IN  \A j \in 1..Len(scanned) :
            /\ 0 <= scanned[j].start.n
            /\ scanned[j].start.n < scanned[j].end.n
            /\ scanned[j].end.n <= Len(toLowerCase(req[id].text.s))

(***************************************************************************)
(* Properties of the entity-type stage, under SpecTypeFilter.              *)
(***************************************************************************)
TypeFilterReturned == args.fn = "entityTypeFiltered" /\ Len(result) = 1

\* C13 as stated: with an empty requested set every entity object passes;
\* otherwise an entity object with a string type passes if and only if its
\* uppercased type is a member of the requested set.
C13_UppercasedTypeIsMember ==
  TypeFilterReturned =>
    \A i \in 1..Len(args.analyzerResults.items) :
      LET entity == args.analyzerResults.items[i]
      IN  entity.obj =>
            /\ args.entityTypeFilterSet = <<>> => entity \in Range(result[1])
            /\ (args.entityTypeFilterSet # <<>> /\ entity.entity_type.k = "string")
                 => (entity \in Range(result[1])
                       <=> toUpperCase(entity.entity_type.s)
                             \in Range(args.entityTypeFilterSet))

\* The type the stage looks up: trimmed and uppercased.
TrimmedUpperType(entity) == toUpperCase(trim(entity.entity_type.s))

\* Whether the entity is to pass the type stage.
TypeRequested(entity, requested) ==
  /\ entity.obj
  /\ \/ requested = <<>>
     \/ /\ entity.entity_type.k = "string"
        /\ TrimmedUpperType(entity) \in Range(requested)

\* C13 as amended: with an empty requested set every entity object passes;
\* otherwise an entity passes if and only if it is an object whose type is
\* a string that, trimmed and uppercased, is a member of the requested set.
\* What passes keeps its order; an answer that is no array gives no entity.
C13_TypeFilter ==
  TypeFilterReturned =>
    LET Requested(entity) == TypeRequested(entity, args.entityTypeFilterSet)
    IN  result[1] = IF args.analyzerResults.isArray
                      THEN SelectSeq(args.analyzerResults.items, Requested)
                      ELSE <<>>

\* With the requested set {"P"}, an entity of type "p" passed, one of type
\* "q" did not.
C13_Witness ==
  /\ TypeFilterReturned
  /\ args.entityTypeFilterSet = <<<<"P">>>>
  /\ Len(args.analyzerResults.items) = 2
  /\ args.analyzerResults.items[1].entity_type = Str(<<"q">>)
  /\ args.analyzerResults.items[2].entity_type = Str(<<"p">>)
  /\ result[1] = <<args.analyzerResults.items[2]>>

(***************************************************************************)
(* Properties of the denylist scan, under SpecScan.                        *)
(***************************************************************************)
ScanReturned == args.fn = "findDenylistEntities" /\ Len(result) = 1

\* The lengths of the segments result is cut into, one segment per term:
\* the number of entities the scan emits for the term taken alone.
SegmentLength(term) == Len(findDenylistEntities(args.sourceText, <<term>>))

RECURSIVE SegmentStart(_)
SegmentStart(t) ==
  IF t = 1 THEN 0
  ELSE SegmentStart(t - 1) + SegmentLength(args.denylistSet[t - 1])

\* The entities of result emitted for the t-th term.
Segment(t) ==
  SubSeq(result[1], SegmentStart(t) + 1,
         SegmentStart(t) + SegmentLength(args.denylistSet[t]))

\* The spans of the segment are those of the term: each as long as the
\* term and lying where the term occurs in the lowercased text, with score
\* 1 and recognizer "denylist"; each starts at or after the end of the one
\* before, at the first occurrence from there on.
SegmentShape(segment, term) ==
  LET lowerSource == toLowerCase(args.sourceText)
  IN  /\ \A k \in 1..Len(segment) :
           /\ segment[k].entity_type = Str(DENYLIST_TERM)
           /\ segment[k].score = Num(10)
           /\ segment[k].recognizer_result = Str(denylist)
           /\ segment[k].start.k = "number" /\ segment[k].end.k = "number"
           /\ segment[k].end.n - segment[k].start.n = Len(term)
           /\ MatchesAt(lowerSource, term, segment[k].start.n)
           /\ LET cursor == IF k = 1 THEN 0 ELSE segment[k - 1].end.n
              IN  /\ cursor <= segment[k].start.n
                  /\ \A i \in cursor..(segment[k].start.n - 1) :
                       ~MatchesAt(lowerSource, term, i)
      /\ \A k \in 1..(Len(segment) - 1) :
           /\ segment[k].start.n < segment[k + 1].start.n
           /\ segment[k].end.n <= segment[k + 1].start.n
      /\ LET cursor == IF segment = <<>> THEN 0 ELSE segment[Len(segment)].end.n
         IN  \A i \in cursor..Len(lowerSource) : ~MatchesAt(lowerSource, term, i)

\* C14: the scan emits, term after term, the spans of each term taken
\* alone (none is suppressed because of another term); the spans of one
\* term do not overlap, increase strictly in start, have the length of the
\* term, score 1 and recognizer "denylist".
C14_ScanShape ==
  ScanReturned =>
    /\ Len(result[1]) = SegmentStart(Len(args.denylistSet) + 1)
    /\ \A t \in 1..Len(args.denylistSet) :
         /\ Segment(t) = findDenylistEntities(args.sourceText, <<args.denylistSet[t]>>)
         /\ SegmentShape(Segment(t), args.denylistSet[t])

\* The terms "aa" and "a" were scanned in a text of three letters a: one
\* span for "aa", [0,2), then three for "a", the first two inside [0,2).
C14_Witness ==
  /\ ScanReturned
  /\ args.denylistSet = <<<<"a", "a">>, <<"a">>>>
  /\ Len(args.sourceText) = 3
  /\ Len(result[1]) = 4
  /\ result[1][1].start = Num(0) /\ result[1][1].end = Num(2)
  /\ result[1][2].start = Num(0) /\ result[1][2].end = Num(1)
  /\ result[1][3].start = Num(1) /\ result[1][3].end = Num(2)
  /\ result[1][4].start = Num(2) /\ result[1][4].end = Num(3)

(***************************************************************************)
(* Properties of the annotator, under SpecAnnotate.                        *)
(***************************************************************************)
AnnotateReturned == args.fn = "applyAnonymizationToHtml" /\ Len(result) >= 1

\* The markup the annotator starts from.
SourceMarkup == IF args.html.k = "string" THEN args.html.s ELSE <<>>

\* The pieces of markup between the occurrences of the literal text found,
\* the occurrences taken from left to right without overlap.
RECURSIVE SplitBy(_, _)
SplitBy(markup, found) ==
  LET at == indexOf(markup, found, 0)
  IN  IF at = -1 THEN <<markup>>
      ELSE <<SubSeq(markup, 1, at)>>
           \o SplitBy(SubSeq(markup, at + Len(found) + 1, Len(markup)), found)

RECURSIVE JoinWith(_, _)
JoinWith(pieces, placeholder) ==
  IF Len(pieces) = 1 THEN pieces[1]
  ELSE pieces[1] \o placeholder \o JoinWith(Tail(pieces), placeholder)

\* The markup with every occurrence of the literal text replaced.
LiteralPass(markup, found, placeholder) == JoinWith(SplitBy(markup, found), placeholder)

\* &lt;LABEL&gt; for the entity: LABEL from the display map, else the raw
\* type, else REDACTED.
Placeholder(entity) ==
  LET type == entity.entity_type
      map == args.entityTypeDisplayMap
      mapped == {i \in 1..Len(map.keys) : type.k = "string" /\ map.keys[i] = type.s}
      label == IF mapped # {} THEN map.values[CHOOSE i \in mapped : TRUE]
               ELSE IF type.k = "string" /\ type.s # <<>> THEN type.s
               ELSE REDACTED
  IN  <<"&", "l", "t", ";">> \o label \o <<"&", "g", "t", ";">>

HasFoundText(entity) ==
  entity.obj /\ entity.foundText.k = "string" /\ entity.foundText.s # <<>>

\* The list holds two entities with found-texts, the found-text of the
\* one at position short a substring of, and shorter than, the found-text
\* of the one at position long.
SubstringPair(long, short) ==
  /\ AnnotateReturned
  /\ Len(args.entities) = 2
  /\ {long, short} = {1, 2}
  /\ HasFoundText(args.entities[long])
  /\ HasFoundText(args.entities[short])
  /\ Len(args.entities[short].foundText.s) < Len(args.entities[long].foundText.s)
  /\ indexOf(args.entities[long].foundText.s, args.entities[short].foundText.s, 0) # -1

\* The pieces with the pass of the entity applied to each.
PassOnPieces(pieces, entity) ==
  [i \in 1..Len(pieces) |->
     LiteralPass(pieces[i], entity.foundText.s, Placeholder(entity))]

\* C15: when the found-text of one entity is a substring of the found-text
\* of another, every occurrence of the longer text stands in the result as
\* the placeholder of the longer entity, the shorter text being replaced
\* in the rest of the markup only, whatever the order of the two entities
\* in the list.
C15_LongerRedactedAsOne ==
  \A long, short \in 1..2 :
    SubstringPair(long, short) =>
      LET longer == args.entities[long]
          shorter == args.entities[short]
          expected == JoinWith(PassOnPieces(SplitBy(SourceMarkup, longer.foundText.s),
                                            shorter),
                               Placeholder(longer))
      IN  \A k \in 1..Len(result) : result[k] = expected

\* What holds of the order: the pass of the longer text runs on the source
\* markup and the pass of the shorter text on its output, whatever the
\* order of the two entities in the list.
LongerPassFirst ==
  \A long, short \in 1..2 :
    SubstringPair(long, short) =>
      LET longer == args.entities[long]
          shorter == args.entities[short]
          expected == LiteralPass(LiteralPass(SourceMarkup, longer.foundText.s,
                                              Placeholder(longer)),
                                  shorter.foundText.s, Placeholder(shorter))
      IN  \A k \in 1..Len(result) : result[k] = expected

\* The same as C15 for the pairs whose shorter text does not occur in the
\* placeholder of the longer entity: there the placeholder stays whole.
LongerRedactedAsOneUnlessInPlaceholder ==
  \A long, short \in 1..2 :
    (/\ SubstringPair(long, short)
     /\ \A i \in 1..Len(args.entities[short].foundText.s) :
          args.entities[short].foundText.s[i]
            \notin Range(Placeholder(args.entities[long]))) =>
      LET longer == args.entities[long]
          shorter == args.entities[short]
          expected == JoinWith(PassOnPieces(SplitBy(SourceMarkup, longer.foundText.s),
                                            shorter),
                               Placeholder(longer))
      IN  \A k \in 1..Len(result) : result[k] = expected

\* The pass of one entity: every occurrence of its found-text, if it has
\* one, replaced by its placeholder.
PassOf(markup, entity) ==
  IF HasFoundText(entity)
    THEN LiteralPass(markup, entity.foundText.s, Placeholder(entity))
    ELSE markup

\* The passes of the entities at the positions order[1], order[2], ... one
\* after the other.
RECURSIVE PassesInOrder(_, _)
PassesInOrder(markup, order) ==
  IF order = <<>> THEN markup
  ELSE PassesInOrder(PassOf(markup, args.entities[Head(order)]), Tail(order))

\* The orders of the positions 1..n.
Orders(n) == {order \in [1..n -> 1..n] : \A i \in 1..n : \E j \in 1..n : order[j] = i}

\* C17: the result is the source markup after one pass per entity, each
\* pass replacing every occurrence of the literal found-text in the markup
\* it runs on by &lt;LABEL&gt; (LABEL from the display map, else the raw
\* type, else REDACTED); for a list of one entity with a found-text, every
\* occurrence of the text in the source markup is replaced.
C17_ReplaceByLiteralText ==
  AnnotateReturned =>
    /\ \E order \in Orders(Len(args.entities)) :
         result[1] = PassesInOrder(SourceMarkup, order)
    /\ (Len(args.entities) = 1 /\ HasFoundText(args.entities[1])) =>
         result[1] = LiteralPass(SourceMarkup, args.entities[1].foundText.s,
                                 Placeholder(args.entities[1]))

\* A list of one entity whose found-text is the dot at [2,3) of the plain
\* text, of a type the display map names N: the markup held the dot twice
\* and both were replaced by &lt;N&gt;, the units around them kept.
C17_Witness ==
  /\ AnnotateReturned
  /\ Len(args.entities) = 1
  /\ args.entities[1].foundText = Str(<<".">>)
  /\ args.html = Str(<<".", "a", ".">>)
  /\ result[1] = <<"&", "l", "t", ";", "N", "&", "g", "t", ";", "a",
                   "&", "l", "t", ";", "N", "&", "g", "t", ";">>

(***************************************************************************)
(* Properties of the component, under SpecUi.                              *)
(***************************************************************************)
\* The finding at position i is enabled: its toggle is not off.
FindingEnabled(i) ==
  LET id == buildEntityId(ui.entities[i], i - 1)
  IN  id \notin DOMAIN ui.entityToggles \/ ui.entityToggles[id]

\* The entities of the findings enabled, in the order of the findings.
EnabledEntities == Restrict(ui.entities, {i \in 1..Len(ui.entities) : FindingEnabled(i)})

\* C16: once the effect has run, the markup displayed is the annotation of
\* the markup and the text submitted for exactly the entities enabled now,
\* whatever was toggled before; annotating again for the entities as the
\* call left them gives the same markup; with every finding enabled the
\* markup displayed is the annotation made at the submission.
C16_ReannotationFromOriginal ==
  (ui.submitted /\ ~ui.effectPending) =>
    /\ ui.displayHtml
         = applyAnonymizationToHtml(Str(ui.lastSubmittedHtml), Str(ui.lastSubmittedText),
                                    EnabledEntities, ui.entityTypeDisplayValueMap)
    /\ ui.displayHtml
         = applyAnonymizationToHtml(Str(ui.lastSubmittedHtml), Str(ui.lastSubmittedText),
                                    foundTextsSet(Str(ui.lastSubmittedText), EnabledEntities),
                                    ui.entityTypeDisplayValueMap)
    /\ (\A i \in 1..Len(ui.entities) : FindingEnabled(i))
         => ui.displayHtml = ui.resultHtml

\* Of two findings one is off and one on, the effect has run, and the
\* markup displayed is neither the markup submitted nor the annotation made
\* at the submission.
C16_Witness ==
  /\ ui.submitted
  /\ ~ui.effectPending
  /\ Len(ui.entities) = 2
  /\ ~FindingEnabled(1)
  /\ FindingEnabled(2)
  /\ ui.displayHtml # ui.lastSubmittedHtml
  /\ ui.displayHtml # ui.resultHtml

(***************************************************************************)
(* The signature of a result.                                              *)
(***************************************************************************)
SignaturesBuilt == args.fn = "buildResultSignature" /\ Len(result) = 2

Abs(n) == IF n < 0 THEN -n ELSE n

\* The number of millionths nearest to n hundred-millionths; of two that are
\* equally near, the one farther from zero.
SixDecimals(n) ==
  LET near == ((n \div 100) - 1)..((n \div 100) + 2)
  IN  CHOOSE m \in near :
        \A k \in near :
          \/ Abs(100 * m - n) < Abs(100 * k - n)
          \/ Abs(100 * m - n) = Abs(100 * k - n) /\ Abs(m) >= Abs(k)

ObjectKeys(object) == {object.a[i].key : i \in 1..Len(object.a)}

ValueAt(object, key) == object.a[CHOOSE i \in 1..Len(object.a) : object.a[i].key = key].value

\* v and w differ at most in the order of the keys of their objects and in
\* numbers that round to the same 6 decimals.
RECURSIVE SameUpToKeyOrderAndRounding(_, _)
SameUpToKeyOrderAndRounding(v, w) ==
  IF v.t # w.t THEN FALSE
  ELSE CASE v.t = "number" -> SixDecimals(v.n) = SixDecimals(w.n)
         [] v.t = "array" ->
              /\ Len(v.a) = Len(w.a)
              /\ \A i \in 1..Len(v.a) : SameUpToKeyOrderAndRounding(v.a[i], w.a[i])
         [] v.t = "object" ->
              /\ ObjectKeys(v) = ObjectKeys(w)
              /\ \A key \in ObjectKeys(v) :
                   SameUpToKeyOrderAndRounding(ValueAt(v, key), ValueAt(w, key))
         [] OTHER -> v = w

\* C18: two payloads that differ only in the order of the keys of their
\* objects, at any depth, or in numbers that round to the same 6 decimals,
\* have the same signature.
C18_SignatureStable ==
  (SignaturesBuilt /\ SameUpToKeyOrderAndRounding(args.payload, args.savedPayload))
    => result[1] = result[2]

\* Two payloads whose entities are not the same value, by the order of the
\* keys of a finding or by a score 10^-8 away, and one signature.
C18_Witness ==
  /\ SignaturesBuilt
  /\ args.payload # args.savedPayload
  /\ args.payload.t = "object"
  /\ SameUpToKeyOrderAndRounding(args.payload, args.savedPayload)
  /\ \E i \in 1..Len(args.payload.a) :
       /\ args.payload.a[i].key = <<"e", "n", "t", "i", "t", "i", "e", "s">>
       /\ args.payload.a[i].value # ValueAt(args.savedPayload, <<"e", "n", "t", "i", "t", "i", "e", "s">>)
  /\ result[1] = result[2]

NullLike(v) == v.t \in {"null", "undefined", "nonfinite"}

\* v and w mean the same: as above, and a number that is not finite or a
\* value that is undefined means null.
RECURSIVE SameMeaning(_, _)
SameMeaning(v, w) ==
  IF NullLike(v) \/ NullLike(w) THEN NullLike(v) /\ NullLike(w)
  ELSE IF v.t # w.t THEN FALSE
  ELSE CASE v.t = "number" -> SixDecimals(v.n) = SixDecimals(w.n)
         [] v.t = "array" ->
              /\ Len(v.a) = Len(w.a)
              /\ \A i \in 1..Len(v.a) : SameMeaning(v.a[i], w.a[i])
         [] v.t = "object" ->
              /\ ObjectKeys(v) = ObjectKeys(w)
              /\ \A key \in ObjectKeys(v) : SameMeaning(ValueAt(v, key), ValueAt(w, key))
         [] OTHER -> v = w

\* The field of the payload, or the value that holds when it is absent.
FieldOr(payload, key, absent) ==
  IF key \in ObjectKeys(payload) /\ ValueAt(payload, key).t # "undefined"
    THEN ValueAt(payload, key)
    ELSE absent

\* The threshold in force, in millionths: the number, the number a string
\* is read as, 0.5 when there is none.
ThresholdInForce(payload) ==
  LET threshold == FieldOr(payload, <<"t", "h", "r", "e", "s", "h", "o", "l", "d">>, JNumber(50000000))
      number == IF threshold.t = "string" THEN parsedNumber(threshold.s) ELSE threshold
  IN  IF number.t = "number" THEN SixDecimals(number.n) ELSE 500000

\* The entity types in force: the codes of the list, a set.
TypesInForce(payload) ==
  LET list == FieldOr(payload, <<"e", "n", "t", "i", "t", "y", "T", "y", "p", "e", "s">>, JArray(<<>>))
  IN  IF list.t = "array"
        THEN {toUpperCase(trim(list.a[i].s)) : i \in {j \in 1..Len(list.a) : list.a[j].t = "string"}}
               \ {<<>>}
        ELSE {}

\* The list in force: none when the field is not a list.
ListInForce(payload, key) ==
  LET list == FieldOr(payload, key, JArray(<<>>))
  IN  IF list.t = "array" THEN list ELSE JArray(<<>>)

TextFields ==
  {<<"s", "o", "u", "r", "c", "e", "T", "e", "x", "t">>, <<"s", "o", "u", "r", "c", "e", "H", "t", "m", "l">>, <<"r", "e", "s", "u", "l", "t", "T", "e", "x", "t">>,
   <<"r", "e", "s", "u", "l", "t", "H", "t", "m", "l">>, <<"n", "e", "r", "M", "o", "d", "e", "l">>, <<"l", "a", "n", "g", "u", "a", "g", "e">>,
   <<"a", "l", "l", "o", "w", "l", "i", "s", "t">>, <<"d", "e", "n", "y", "l", "i", "s", "t">>}

\* The two payloads say the same in every covered field.
SamePayload(p, q) ==
  IF p.t # "object" \/ q.t # "object" THEN p.t # "object" /\ q.t # "object"
  ELSE /\ \A key \in TextFields :
            SameMeaning(FieldOr(p, key, JString(<<>>)), FieldOr(q, key, JString(<<>>)))
       /\ ThresholdInForce(p) = ThresholdInForce(q)
       /\ TypesInForce(p) = TypesInForce(q)
       /\ SameMeaning(ListInForce(p, <<"e", "n", "t", "i", "t", "i", "e", "s">>), ListInForce(q, <<"e", "n", "t", "i", "t", "i", "e", "s">>))
       /\ SameMeaning(ListInForce(p, <<"i", "t", "e", "m", "s">>), ListInForce(q, <<"i", "t", "e", "m", "s">>))

\* C19: two payloads that differ in what a covered field says (a text, the
\* threshold in force, the set of entity types, the entities, the items) have
\* different signatures.
C19_SignatureDiscriminates ==
  (SignaturesBuilt /\ ~SamePayload(args.payload, args.savedPayload))
    => result[1] # result[2]

\* Two payloads whose items are the strings a and a, and the one string
\* a,a: their signatures differ.
C19_Witness ==
  /\ SignaturesBuilt
  /\ args.payload.t = "object" /\ args.savedPayload.t = "object"
  /\ ListInForce(args.payload, <<"i", "t", "e", "m", "s">>) = JArray(<<JString(<<"a">>), JString(<<"a">>)>>)
  /\ ListInForce(args.savedPayload, <<"i", "t", "e", "m", "s">>) = JArray(<<JString(<<"a", ",", "a">>)>>)
  /\ ~SamePayload(args.payload, args.savedPayload)
  /\ result[1] # result[2]

(***************************************************************************)
(* Requests in flight together.                                            *)
(***************************************************************************)
\* The settings the handler reads from a body.
OwnSettings(id) ==
  LET body == args.bodies[id]
  IN  /\ req[id].text = body.text
      /\ req[id].entityTypeFilterSet = parseRequestedEntityTypes(body.entityTypes)
      /\ req[id].acceptanceThreshold = acceptanceThresholdOf(body.threshold)
      /\ req[id].allowlistSet = buildTermSet(body.allowlist)
      /\ req[id].denylistSet = buildTermSet(body.denylist)

\* The list of the request is the pipeline applied to the answer of the
\* analyzer to the request and to the settings of the body of the request.
OwnList(id) ==
  LET body == args.bodies[id]
  IN  req[id].filteredAnalyzerResults =
        filteredAnalyzerResults(
          args.answers[id], body.text.s, parseRequestedEntityTypes(body.entityTypes),
          acceptanceThresholdOf(body.threshold), buildTermSet(body.allowlist),
          buildTermSet(body.denylist))

\* C20: with several requests in flight, interleaved at their await points,
\* the settings of each request are those of its own body, and the list it
\* sends to the anonymizer and returns is a function of its own body and of
\* the answer of the analyzer to it alone.
C20_NoCrossRequestState ==
  args.fn = "requests" =>
    \A id \in DOMAIN req :
      /\ req[id].pc # "idle" => OwnSettings(id)
      /\ ListSent(id) => OwnList(id)

\* Two requests with different bodies and different answers of the analyzer:
\* the second arrived and had its answer while the first was waiting for the
\* anonymizer, and their lists differ.
C20_Witness ==
  /\ args.fn = "requests"
  /\ args.bodies[1] # args.bodies[2]
  /\ args.answers[1] # args.answers[2]
  /\ req[1].pc = "awaitAnonymizer" /\ req[2].pc = "awaitAnonymizer"
  /\ req[1].filteredAnalyzerResults # <<>>
  /\ req[2].filteredAnalyzerResults # <<>>
  /\ req[1].filteredAnalyzerResults # req[2].filteredAnalyzerResults

(***************************************************************************)
(* The end of the denylist scan.                                           *)
(***************************************************************************)
\* C21: the scan of a term ends: every iteration that emits an entity moves
\* the cursor strictly forward, and a term has at most
\* length(source) / length(term) entities.
C21_ScanBounded ==
  ScanReturned =>
    \A t \in 1..Len(args.denylistSet) :
      /\ \A k \in 1..Len(Segment(t)) :
           (IF k = 1 THEN 0 ELSE Segment(t)[k - 1].end.n) < Segment(t)[k].end.n
      /\ Len(Segment(t)) * Len(args.denylistSet[t]) <= Len(args.sourceText)

\* Every iteration that emits an entity moves the cursor strictly forward,
\* and the cursor never passes the end of the lowercased text.
CursorAdvances ==
  ScanReturned =>
    \A t \in 1..Len(args.denylistSet) :
      \A k \in 1..Len(Segment(t)) :
        /\ (IF k = 1 THEN 0 ELSE Segment(t)[k - 1].end.n) < Segment(t)[k].end.n
        /\ Segment(t)[k].end.n <= Len(toLowerCase(args.sourceText))

\* A term has at most length(lowercased source) / length(term) entities.
ScanBoundedInLowerText ==
  ScanReturned =>
    \A t \in 1..Len(args.denylistSet) :
      Len(Segment(t)) * Len(args.denylistSet[t]) <= Len(toLowerCase(args.sourceText))

(***************************************************************************)
(* The order of the calls of a request and its response.                   *)
(***************************************************************************)
\* The anonymizer is called at most once, and only after the analyzer
\* answered OK with a body that parsed; a request has no response until it
\* is done, and then exactly one.
CallsInOrder(r) ==
  /\ r.analyzerCalls <= 1 /\ r.anonymizerCalls <= 1
  /\ r.anonymizerCalls = 1 =>
       r.analyzerCalls = 1 /\ r.analyzerResponse = "ok" /\ r.analyzerParsed
  /\ r.responses = (IF r.pc = "done" THEN 1 ELSE 0)
  /\ r.pc = "done" <=> r.status \in {200, 400, 500, 502}
  /\ r.status = 400 => r.analyzerCalls = 0
  /\ r.status = 200 => r.anonymizerCalls = 1

\* C22 as stated: the anonymizer is called at most once per request and only
\* after the analyzer answered OK; a request whose analyzer answers non-OK is
\* answered 502 without a call of the anonymizer; exactly one response is
\* sent on every path.
C22_NonOkAnswered502 ==
  \A id \in DOMAIN req :
    /\ CallsInOrder(req[id])
    /\ req[id].analyzerResponse = "notOk" =>
         req[id].pc = "done" /\ req[id].status = 502 /\ req[id].anonymizerCalls = 0

\* C22: the same, and a request whose analyzer answers non-OK is answered
\* 502, or 500 when the body of that answer cannot be read, without a call
\* of the anonymizer.
C22_CallOrdering ==
  \A id \in DOMAIN req :
    /\ CallsInOrder(req[id])
    /\ req[id].analyzerResponse = "notOk" =>
         req[id].pc = "done" /\ req[id].status \in {500, 502}
           /\ req[id].anonymizerCalls = 0

\* A request whose analyzer answered non-OK, answered 502.
C22_Witness ==
  \E id \in DOMAIN req :
    /\ req[id].analyzerResponse = "notOk"
    /\ req[id].status = 502 /\ req[id].responses = 1 /\ req[id].anonymizerCalls = 0

(***************************************************************************)
(* The authentication gate of the /api router.                             *)
(***************************************************************************)
Operations == {operationOf(route) : route \in ApiRoutes}

\* The request is done with: no action is left for it.
RequestSettled ==
  /\ args.fn = "request"
  /\ result # <<>>
  /\ result[Len(result)] \notin {"next", "router"}

Unauthenticated == args.fn = "request" /\ args.isAuthenticated # "true"

\* C23: a request to the /api router for which isAuthenticated() is false
\* reaches no handler of the router and no operation is performed for it; it
\* is answered 401.
C23_Gate401 ==
  (Unauthenticated /\ mountMatches(args)) =>
    /\ \A i \in 1..Len(result) : result[i] \notin Operations \cup {"router"}
    /\ RequestSettled => result = <<"401">>

\* A request for which isAuthenticated() is false reaches no handler of the
\* /api router and no operation is performed for it; it is answered 401 or
\* redirected to /login.
GateClosed ==
  Unauthenticated =>
    /\ \A i \in 1..Len(result) : result[i] \notin Operations \cup {"router", "next"}
    /\ RequestSettled => result \in {<<"401">>, <<"redirect /login">>}

\* An authenticated request reaches the handler of its route.
GateOpen ==
  (args.fn = "request" /\ args.isAuthenticated = "true" /\ mountMatches(args)
     /\ RequestSettled)
    => result = <<"next", "router", "next", routeHandler(args)>>

(***************************************************************************)
(* A session of the component: what is saved.                              *)
(***************************************************************************)
InSession == args.fn = "session"

\* Every save was asked for when the signature of the payload differed
\* from the last-saved signature, and no save can be asked for while the
\* signature of the payload is the last-saved signature.
SaveOnlyWhenSignatureDiffers ==
  InSession =>
    /\ \A i \in 1..Len(result) :
         signatureOf(result[i].payload) # result[i].lastSavedSignature
    /\ \A op \in args.inflight :
         op.kind = "save" => op.signature # op.lastSavedSignature
    /\ (args.payload.set /\ signatureOf(args.payload) = args.lastSavedSignature)
         => ~(canSaveCurrentResult(args) /\ savePosts(args))

\* C24: the save action posts the current result only when its signature
\* differs from the last-saved signature, posts nothing right after a save
\* that succeeded or a load, and no two records stored are the same result.
C24_SaveDeduplicated ==
  /\ SaveOnlyWhenSignatureDiffers
  /\ InSession =>
       \A i, j \in 1..Len(result) :
         i < j => signatureOf(result[i].payload) # signatureOf(result[j].payload)

\* C26: the resultHtml of every payload posted is the markup that was
\* displayed when the save was asked for.
C26_SavedMatchesDisplay ==
  InSession =>
    /\ \A i \in 1..Len(result) : result[i].payload.resultHtml = result[i].displayHtml
    /\ \A op \in args.inflight :
         op.kind = "save" => op.payload.resultHtml = op.displayHtml

\* The resultHtml of every payload posted is the annotation of the markup
\* submitted for all the entities of the payload, whatever is toggled.
SavedIsFullAnnotation ==
  InSession =>
    \A i \in 1..Len(result) :
      LET payload == result[i].payload
      IN  payload.resultHtml
            = applyAnonymizationToHtml(Str(payload.sourceHtml), Str(payload.sourceText),
                                       payload.entities, ui.entityTypeDisplayValueMap)

\* The submission, load or reset started last.
LatestAction == args.actions[Len(args.actions)]

\* C27: once no response is awaited, what is shown (the text and the markup
\* submitted, the entities), the payload kept for saving and the last-saved
\* signature (when no save has succeeded since) are those of the
\* submission, load or reset that was started last, when that one succeeded.
C27_LatestActionWins ==
  (InSession /\ args.inflight = {} /\ args.actions # <<>> /\ LatestAction.status = "ok")
    => /\ args.payload = LatestAction.payload
       /\ ui.lastSubmittedText = LatestAction.payload.sourceText
       /\ ui.lastSubmittedHtml = LatestAction.payload.sourceHtml
       /\ ui.entities = LatestAction.payload.entities
       /\ ~args.saveAnswered =>
            args.lastSavedSignature
              = (IF LatestAction.kind = "load" THEN signatureOf(LatestAction.payload)
                 ELSE <<>>)

\* Once no response is awaited and no handler has failed, the payload kept
\* for saving is that of a submission or a load that was started, or none
\* after a reset: of the one whose response came last.
SomeActionWins ==
  (InSession /\ args.inflight = {}) =>
    \/ ~args.payload.set
    \/ \E k \in 1..Len(args.actions) :
         /\ args.actions[k].status = "ok"
         /\ args.payload = args.actions[k].payload
         /\ ui.lastSubmittedText = args.payload.sourceText
         /\ ui.lastSubmittedHtml = args.payload.sourceHtml

(***************************************************************************)
(* The placeholders of one annotation call.                                *)
(***************************************************************************)
\* The list holds two entities with found-texts.
TwoPasses ==
  /\ AnnotateReturned
  /\ Len(args.entities) = 2
  /\ HasFoundText(args.entities[1])
  /\ HasFoundText(args.entities[2])

\* The position of the entity whose pass runs first: the one with the
\* longer found-text, the first of the list when they are as long.
FirstPass ==
  IF Len(args.entities[2].foundText.s) > Len(args.entities[1].foundText.s) THEN 2 ELSE 1

\* The markup after both passes when the later pass leaves the placeholders
\* of the first alone: the later pass applied to the pieces of markup
\* between the placeholders of the first.
IntactResult ==
  LET first == args.entities[FirstPass]
      later == args.entities[3 - FirstPass]
  IN  JoinWith(PassOnPieces(SplitBy(SourceMarkup, first.foundText.s), later),
               Placeholder(first))

\* C25: within one call, the placeholders a pass has inserted are not
\* modified by the pass of another entity that runs later: they stand in
\* the output as they were inserted.
C25_PlaceholdersIntact == TwoPasses => result[1] = IntactResult

\* The same when no unit of the found-text of the later pass occurs in the
\* placeholder of the first.
IntactUnlessTextInPlaceholder ==
  (/\ TwoPasses
   /\ \A i \in 1..Len(args.entities[3 - FirstPass].foundText.s) :
        args.entities[3 - FirstPass].foundText.s[i]
          \notin Range(Placeholder(args.entities[FirstPass])))
    => result[1] = IntactResult


(***************************************************************************)
(* The names of the presets of one user.                                   *)
(***************************************************************************)
\* The name with its letters in lower case, the letters outside ASCII
\* included.
FoldCase(s) ==
  [i \in 1..Len(s) |-> IF s[i] = CapEAcute THEN EAcute ELSE sqlLowerUnit(s[i])]

LastCall == result[1]

PresetSaved ==
  /\ result # <<>>
  /\ LastCall.fn = "savePresetForUser"
  /\ LastCall.userId # 0

\* The presets of the caller, before the call, whose name the relation
\* holds equal to the name given.
SameNamed(Equal(_, _)) ==
  {row \in LastCall.before.presets :
     row.user_id = LastCall.userId /\ Equal(row.name, LastCall.name)}

\* The call changed the settings of one row and nothing else, and returned
\* that row.
UpdatedInPlace(rows) ==
  /\ Cardinality(rows) = 1
  /\ Cardinality(args.presets) = Cardinality(LastCall.before.presets)
  /\ args.presetSeq = LastCall.before.presetSeq
  /\ \E row \in rows :
       \E nerModel \in {normalizeNerModel(given) : given \in NerModelInputs} :
         LET after == [row EXCEPT !.nerModel = nerModel]
         IN  /\ args.presets = (LastCall.before.presets \ {row}) \cup {after}
             /\ LastCall.returned = Rows({after})

EqualIgnoringCase(a, b) == FoldCase(a) = FoldCase(b)

EqualUnderSqlLower(a, b) == sqlLower(normalizeName(a)) = sqlLower(normalizeName(b))

\* C28: no user has two presets whose names are equal ignoring case, and a
\* save under a name equal, ignoring case, to the name of a preset of the
\* user updates that preset in place: same id, same stored name, as many
\* presets as before.
C28_PresetNamesUnique ==
  /\ \A p, q \in args.presets :
       (p.user_id = q.user_id /\ EqualIgnoringCase(p.name, q.name)) => p = q
  /\ (PresetSaved /\ SameNamed(EqualIgnoringCase) # {})
       => UpdatedInPlace(SameNamed(EqualIgnoringCase))

\* No user has two presets whose names lower() of SQLite makes equal, and a
\* save under a name that lower() makes equal, once trimmed, to the name of
\* a preset of the user updates that preset in place.
UniqueUnderSqlLower ==
  /\ \A p, q \in args.presets :
       (p.user_id = q.user_id /\ sqlLower(p.name) = sqlLower(q.name)) => p = q
  /\ (PresetSaved /\ SameNamed(EqualUnderSqlLower) # {})
       => UpdatedInPlace(SameNamed(EqualUnderSqlLower))

\* Two presets of one user exist, and the last save updated one in place.
UpdatedInPlaceReached ==
  /\ PresetSaved
  /\ SameNamed(EqualUnderSqlLower) # {}
  /\ LastCall.name \notin {row.name : row \in LastCall.before.presets}
  /\ \E p, q \in args.presets : p # q /\ p.user_id = q.user_id

(***************************************************************************)
(* The records of one user and the calls made for another.                 *)
(***************************************************************************)
OwnedBy(rows, userId) == {row \in rows : row.user_id = userId}

NotOwnedBy(rows, userId) == {row \in rows : row.user_id # userId}

Reads ==
  {"listPresetsForUser", "getPresetByIdForUser", "searchAnonymizationsForUser",
   "getAnonymizationForUser"}

\* The rows the last call returned.
ReturnedRows ==
  IF LastCall.fn = "deletePresetForUser" THEN {} ELSE LastCall.returned.rows

\* The last call was given the id of a record of another user.
ForeignPreset ==
  \E row \in LastCall.before.presets :
    row.id = LastCall.id /\ row.user_id # LastCall.userId

ForeignRun ==
  \E row \in LastCall.before.runs :
    row.id = LastCall.id /\ row.user_id # LastCall.userId

\* C29: a call made for user U returns no record of another user and leaves
\* the records of every other user as they were; deletePresetForUser(U, id)
\* with the id of a preset of V returns false, and
\* getAnonymizationForUser(U, id) with the id of a record of V returns null.
C29_UserIsolation ==
  result # <<>> =>
    /\ \A row \in ReturnedRows : row.user_id = LastCall.userId
    /\ NotOwnedBy(args.presets, LastCall.userId)
         = NotOwnedBy(LastCall.before.presets, LastCall.userId)
    /\ NotOwnedBy(args.runs, LastCall.userId)
         = NotOwnedBy(LastCall.before.runs, LastCall.userId)
    /\ LastCall.fn \in Reads => args = LastCall.before
    /\ (LastCall.fn = "deletePresetForUser" /\ ForeignPreset)
         => /\ LastCall.returned = FALSE
            /\ LastCall.status \in {401, 404}
            /\ args.presets = LastCall.before.presets
    /\ (LastCall.fn = "getPresetByIdForUser" /\ ForeignPreset)
         => LastCall.returned = Null
    /\ (LastCall.fn = "getAnonymizationForUser" /\ ForeignRun)
         => LastCall.returned = Null

\* User 1 asked for the deletion of a preset of user 2, while holding a
\* preset too.
C29_Witness ==
  /\ result # <<>>
  /\ LastCall.fn = "deletePresetForUser"
  /\ LastCall.userId = 1
  /\ ForeignPreset
  /\ OwnedBy(args.presets, 1) # {}

\* User 1 asked for a saved record of user 2 and searched with both users
\* holding records.
ForeignRunAsked ==
  /\ result # <<>>
  /\ LastCall.fn = "getAnonymizationForUser"
  /\ LastCall.userId = 1
  /\ ForeignRun

(***************************************************************************)
(* Registrations with one address.                                         *)
(***************************************************************************)
SameAddress(id, other) ==
  /\ result[id].email # <<>>
  /\ toLowerCase(result[id].email) = toLowerCase(result[other].email)

\* The requests sent with the address of request id, ignoring case.
Rivals(id) == {other \in RegistrationIds : SameAddress(id, other)}

RowsOf(id) == {row \in args.users : row.email = toLowerCase(result[id].email)}

LoggedIn(ids) == {id \in ids : result[id].session # 0}

AllDone(ids) == \A id \in ids : result[id].pc = "done"

\* C30: of the requests to register one address, ignoring case, at most one
\* row is created, exactly one request is logged in as the new user, and
\* every other one is answered 400 with the "already exists" error.
C30_TakenEmailAnswered400 ==
  \A id \in RegistrationIds :
    /\ Cardinality(RowsOf(id)) <= 1
    /\ Cardinality(LoggedIn(Rivals(id))) <= 1
    /\ (Rivals(id) # {} /\ AllDone(Rivals(id))) =>
         /\ Cardinality(LoggedIn(Rivals(id))) = 1
         /\ \A other \in Rivals(id) \ LoggedIn(Rivals(id)) :
              result[other].answer = "400 already exists"

\* Of the requests to register one address, at most one row is created,
\* exactly one request is logged in as the user of that row, and every
\* other one is answered 400 "already exists" or hands the error of the
\* insert to next().
OneRowOneSession ==
  \A id \in RegistrationIds :
    /\ Cardinality(RowsOf(id)) <= 1
    /\ Cardinality(LoggedIn(Rivals(id))) <= 1
    /\ \A other \in LoggedIn(Rivals(id)) :
         RowsOf(id) = {UserRow(result[other].session, toLowerCase(result[id].email))}
    /\ (Rivals(id) # {} /\ AllDone(Rivals(id))) =>
         /\ Cardinality(LoggedIn(Rivals(id))) = 1
         /\ \A other \in Rivals(id) \ LoggedIn(Rivals(id)) :
              result[other].answer \in {"400 already exists", "next(error)"}

\* A request that arrives after the row was inserted is answered 400.
LateRequestAnswered400 ==
  \A id \in RegistrationIds :
    (result[id].pc = "done" /\ result[id].user = 0 /\ result[id].email # <<>>
       /\ result[id].answer = "400 already exists")
      => RowsOf(id) # {}

====
